---- MODULE Spec2Model ----
(***************************************************************************)
(* A model of gapbf: the constrained path enumerator and counter of        *)
(* PathFinder, the handler chain of PathFinder.process_path, the search    *)
(* loop PathFinder.dfs, the handlers of PathHandler.py and the CSV ledger  *)
(* they share.                                                             *)
(*                                                                         *)
(* Nodes are the strings PathFinder.__init__ standardises them to.  Text   *)
(* (a serialised path, a CSV field, the ledger file) is a sequence of      *)
(* one-character strings.                                                  *)
(***************************************************************************)
EXTENDS Integers, Sequences, FiniteSets, TLC

(***************************************************************************)
(* Bounds of the model.                                                    *)
(***************************************************************************)
\* the largest path_max_len of the enumerated constraint sets
MaxLen == 3
\* the largest number of nodes in an enumerated prefix or suffix
MaxFixLen == 2

(***************************************************************************)
(* GraphCatalog: PathFinder._graphs, with the nodes as str.                *)
(***************************************************************************)
graph == <<"1", "2", "3", "4", "5", "6", "7", "8", "9">>

\* variant of the table below: the entry of "2" does not list "1"
neighborsOneWay ==
    [n \in {"1", "2", "3", "4", "5", "6", "7", "8", "9"} |->
        CASE n = "1" -> <<"2", "4", "5">>
          [] n = "2" -> <<"3", "4", "5", "6">>
          [] n = "3" -> <<"2", "5", "6">>
          [] n = "4" -> <<"1", "2", "5", "7", "8">>
          [] n = "5" -> <<"1", "2", "3", "4", "6", "7", "8", "9">>
          [] n = "6" -> <<"2", "3", "5", "8", "9">>
          [] n = "7" -> <<"4", "5", "8">>
          [] n = "8" -> <<"4", "5", "6", "7", "9">>
          [] n = "9" -> <<"5", "6", "8">>]

neighbors ==
    [n \in {"1", "2", "3", "4", "5", "6", "7", "8", "9"} |->
        CASE n = "1" -> <<"2", "4", "5">>
          [] n = "2" -> <<"1", "3", "4", "5", "6">>
          [] n = "3" -> <<"2", "5", "6">>
          [] n = "4" -> <<"1", "2", "5", "7", "8">>
          [] n = "5" -> <<"1", "2", "3", "4", "6", "7", "8", "9">>
          [] n = "6" -> <<"2", "3", "5", "8", "9">>
          [] n = "7" -> <<"4", "5", "8">>
          [] n = "8" -> <<"4", "5", "6", "7", "9">>
          [] n = "9" -> <<"5", "6", "8">>]

\* variant of the list below: a node written twice
graph4Twice ==
    <<"1", "2", "3", "4", "5", "6", "7", "8", "8", ":", ";", "<", "=", ">", "?", "@">>

graph4 ==
    <<"1", "2", "3", "4", "5", "6", "7", "8", "9", ":", ";", "<", "=", ">", "?", "@">>

neighbors4 ==
    [n \in {"1", "2", "3", "4", "5", "6", "7", "8", "9", ":", ";", "<", "=", ">", "?", "@"} |->
        CASE n = "1" -> <<"2", "5", "6">>
          [] n = "2" -> <<"1", "3", "5", "6", "7">>
          [] n = "3" -> <<"2", "4", "6", "7", "8">>
          [] n = "4" -> <<"3", "7", "8">>
          [] n = "5" -> <<"1", "2", "6", "9", ":">>
          [] n = "6" -> <<"1", "2", "3", "5", "7", "9", ":", ";">>
          [] n = "7" -> <<"2", "3", "4", "6", "8", ":", ";", "<">>
          [] n = "8" -> <<"3", "4", "7", ";", "<">>
          [] n = "9" -> <<"5", "6", ":", "=", ">">>
          [] n = ":" -> <<"5", "6", "7", "9", ";", "=", ">", "?">>
          [] n = ";" -> <<"6", "7", "8", ":", "<", ">", "?", "@">>
          [] n = "<" -> <<"7", "8", ";", "?", "@">>
          [] n = "=" -> <<"9", ":", ">">>
          [] n = ">" -> <<"9", ":", ";", "=", "?">>
          [] n = "?" -> <<":", ";", "<", ">", "@">>
          [] n = "@" -> <<";", "<", "?">>]

graph5 ==
    <<"1", "2", "3", "4", "5", "6", "7", "8", "9", ":", ";", "<", "=", ">", "?", "@", "A", "B", "C", "D", "E", "F", "G", "H", "I">>

neighbors5 ==
    [n \in {"1", "2", "3", "4", "5", "6", "7", "8", "9", ":", ";", "<", "=", ">", "?", "@", "A", "B", "C", "D", "E", "F", "G", "H", "I"} |->
        CASE n = "1" -> <<"2", "6", "7">>
          [] n = "2" -> <<"1", "3", "6", "7", "8">>
          [] n = "3" -> <<"2", "4", "7", "8", "9">>
          [] n = "4" -> <<"3", "5", "8", "9", ":">>
          [] n = "5" -> <<"4", "9", ":">>
          [] n = "6" -> <<"1", "2", "7", ";", "<">>
          [] n = "7" -> <<"1", "2", "3", "6", "8", ";", "<", "=">>
          [] n = "8" -> <<"2", "3", "4", "7", "9", "<", "=", ">">>
          [] n = "9" -> <<"3", "4", "5", "8", ":", "=", ">", "?">>
          [] n = ":" -> <<"4", "5", "9", ">", "?">>
          [] n = ";" -> <<"6", "7", "<", "@", "A">>
          [] n = "<" -> <<"6", "7", "8", ";", "=", "@", "A", "B">>
          [] n = "=" -> <<"7", "8", "9", "<", ">", "A", "B", "C">>
          [] n = ">" -> <<"8", "9", ":", "=", "?", "B", "C", "D">>
          [] n = "?" -> <<"9", ":", ">", "C", "D">>
          [] n = "@" -> <<";", "<", "A", "E", "F">>
          [] n = "A" -> <<";", "<", "=", "@", "B", "E", "F", "G">>
          [] n = "B" -> <<"<", "=", ">", "A", "C", "F", "G", "H">>
          [] n = "C" -> <<"=", ">", "?", "B", "D", "G", "H", "I">>
          [] n = "D" -> <<">", "?", "C", "H", "I">>
          [] n = "E" -> <<"@", "A", "F">>
          [] n = "F" -> <<"@", "A", "B", "E", "G">>
          [] n = "G" -> <<"A", "B", "C", "F", "H">>
          [] n = "H" -> <<"B", "C", "D", "G", "I">>
          [] n = "I" -> <<"C", "D", "H">>]

graph6 ==
    <<"1", "2", "3", "4", "5", "6", "7", "8", "9", ":", ";", "<", "=", ">", "?", "@", "A", "B", "C", "D", "E", "F", "G", "H", "I", "J", "K", "L", "M", "N", "O", "P", "Q", "R", "S", "T">>

neighbors6 ==
    [n \in {"1", "2", "3", "4", "5", "6", "7", "8", "9", ":", ";", "<", "=", ">", "?", "@", "A", "B", "C", "D", "E", "F", "G", "H", "I", "J", "K", "L", "M", "N", "O", "P", "Q", "R", "S", "T"} |->
        CASE n = "1" -> <<"2", "7", "8">>
          [] n = "2" -> <<"1", "3", "7", "8", "9">>
          [] n = "3" -> <<"2", "4", "8", "9", ":">>
          [] n = "4" -> <<"3", "5", "9", ":", ";">>
          [] n = "5" -> <<"4", "6", ":", ";", "<">>
          [] n = "6" -> <<"5", ";", "<">>
          [] n = "7" -> <<"1", "2", "8", "=", ">">>
          [] n = "8" -> <<"1", "2", "3", "7", "9", "=", ">", "?">>
          [] n = "9" -> <<"2", "3", "4", "8", ":", ">", "?", "@">>
          [] n = ":" -> <<"3", "4", "5", "9", ";", "?", "@", "A">>
          [] n = ";" -> <<"4", "5", "6", ":", "<", "@", "A", "B">>
          [] n = "<" -> <<"5", "6", ";", "A", "B">>
          [] n = "=" -> <<"7", "8", ">", "C", "D">>
          [] n = ">" -> <<"7", "8", "9", "=", "?", "C", "D", "E">>
          [] n = "?" -> <<"8", "9", ":", ">", "@", "D", "E", "F">>
          [] n = "@" -> <<"9", ":", ";", "?", "A", "E", "F", "G">>
          [] n = "A" -> <<":", ";", "<", "@", "B", "F", "G", "H">>
          [] n = "B" -> <<";", "<", "A", "G", "H">>
          [] n = "C" -> <<"=", ">", "D", "I", "J">>
          [] n = "D" -> <<"=", ">", "?", "C", "E", "I", "J", "K">>
          [] n = "E" -> <<">", "?", "@", "D", "F", "J", "K", "L">>
          [] n = "F" -> <<"?", "@", "A", "E", "G", "K", "L", "M">>
          [] n = "G" -> <<"@", "A", "B", "F", "H", "L", "M", "N">>
          [] n = "H" -> <<"A", "B", "G", "M", "N">>
          [] n = "I" -> <<"C", "D", "J", "O", "P">>
          [] n = "J" -> <<"C", "D", "E", "I", "K", "O", "P", "Q">>
          [] n = "K" -> <<"D", "E", "F", "J", "L", "P", "Q", "R">>
          [] n = "L" -> <<"E", "F", "G", "K", "M", "Q", "R", "S">>
          [] n = "M" -> <<"F", "G", "H", "L", "N", "R", "S", "T">>
          [] n = "N" -> <<"G", "H", "M", "S", "T">>
          [] n = "O" -> <<"I", "J", "P">>
          [] n = "P" -> <<"I", "J", "K", "O", "Q">>
          [] n = "Q" -> <<"J", "K", "L", "P", "R">>
          [] n = "R" -> <<"K", "L", "M", "Q", "S">>
          [] n = "S" -> <<"L", "M", "N", "R", "T">>
          [] n = "T" -> <<"M", "N", "S">>]

\* PathFinder._graphs: grid size -> node list and neighbor table
graphs ==
    [n \in {3, 4, 5, 6} |->
        CASE n = 3 -> [graph |-> graph, neighbors |-> neighbors]
          [] n = 4 -> [graph |-> graph4, neighbors |-> neighbors4]
          [] n = 5 -> [graph |-> graph5, neighbors |-> neighbors5]
          [] n = 6 -> [graph |-> graph6, neighbors |-> neighbors6]]

\* variant of the test below: only the lower end is tested
SupportedFrom(n) == n >= 3

\* PathFinder.__init__: "if grid_size not in self._graphs" is False
SupportedSize(n) == n \in DOMAIN graphs

\* self._graph and self._neighbors of a PathFinder constructed with c
Graph(c) == graphs[c.grid_size].graph

\* variant of the map below: every neighbour list back to front
NeighborsReversed(c) ==
    [n \in DOMAIN graphs[c.grid_size].neighbors |->
        LET l == graphs[c.grid_size].neighbors[n]
        IN [i \in 1..Len(l) |-> l[Len(l) + 1 - i]]]

Neighbors(c) == graphs[c.grid_size].neighbors

(***************************************************************************)
(* Generic helpers.                                                        *)
(***************************************************************************)
Range(s) == {s[i] : i \in 1..Len(s)}

SeqsUpTo(S, n) == UNION {[1..k -> S] : k \in 0..n}

\* Python's s[:-1]
ButLast(s) == SubSeq(s, 1, Len(s) - 1)

\* Python's s[-k:] for 1 <= k <= len(s)
LastK(s, k) == SubSeq(s, Len(s) - k + 1, Len(s))

NoRepeat(s) == \A i, j \in 1..Len(s) : i # j => s[i] # s[j]

(***************************************************************************)
(* The constraint sets a PathFinder is constructed with.                   *)
(***************************************************************************)
PrefixPool == {"1", "2"}
SuffixPool == {"2", "6"}
ExcludedPool == {"1", "5"}

\* the concrete scenario of tests/test_pathfinder.py, test_complete_search_small_grid
Scenario ==
    [grid_size |-> 3, path_min_len |-> 4, path_max_len |-> 4, path_prefix |-> <<"1">>,
     path_suffix |-> <<"9">>, excluded_nodes |-> {"5"}]

\* the grid sizes a PathFinder is constructed with: the supported ones and
\* one below and one above them
GridSizes == {2, 3, 4, 5, 6, 7}

\* constraint sets for the grid sizes other than 3
OtherGridConfigs ==
    {[grid_size |-> n, path_min_len |-> 1, path_max_len |-> 2,
      path_prefix |-> p, path_suffix |-> <<>>, excluded_nodes |-> {}] :
        n \in GridSizes \ {3}, p \in {<<>>, <<"1">>}}

\* a prefix whose nodes are not neighbours on the grid
JumpPrefixScenario ==
    [grid_size |-> 3, path_min_len |-> 2, path_max_len |-> 3,
     path_prefix |-> <<"1", "9">>, path_suffix |-> <<>>, excluded_nodes |-> {}]

Configs ==
    {[grid_size |-> 3, path_min_len |-> lo, path_max_len |-> hi,
      path_prefix |-> p, path_suffix |-> s, excluded_nodes |-> x] :
        lo \in 1..MaxLen, hi \in 1..MaxLen,
        p \in SeqsUpTo(PrefixPool, MaxFixLen),
        s \in SeqsUpTo(SuffixPool, MaxFixLen),
        x \in SUBSET ExcludedPool}
    \cup {Scenario, JumpPrefixScenario} \cup OtherGridConfigs

\* The constraint-set invariant of the configuration contract
\* (Config.validate_path_constraints), with the prefix a Path: distinct nodes.
ValidConfig(c) ==
    /\ c.path_min_len >= 1
    /\ c.path_min_len <= c.path_max_len
    /\ Len(c.path_prefix) <= c.path_max_len
    /\ Len(c.path_suffix) <= c.path_max_len
    /\ Len(c.path_prefix) + Len(c.path_suffix) <= c.path_max_len
    /\ Range(c.path_prefix) \cap c.excluded_nodes = {}
    /\ Range(c.path_suffix) \cap c.excluded_nodes = {}
    /\ NoRepeat(c.path_prefix)

(***************************************************************************)
(* Config: the fields main() passes to PathFinder, their defaults and the  *)
(* validation of a construction.                                           *)
(***************************************************************************)
\* "grid_size: int = Field(default=0, ge=3, le=6)"
DefaultGridSize == 0

\* "path_min_length: int = Field(default=4, ge=1)"
DefaultMinLength == 4

\* "path_max_length: int = Field(default=0, ge=1)"
DefaultMaxLength == 0

\* the fields with a Field constraint among those of a constraint set
NumberFields == {"grid_size", "path_min_length", "path_max_length"}

\* the Field constraints and validate_grid_size: pydantic applies them to the
\* values passed to Config(...), not to the defaults of the fields left out
FieldsValid(c, passed) ==
    /\ "grid_size" \in passed =>
           (c.grid_size >= 3 /\ c.grid_size <= 6 /\ c.grid_size \in {3, 4, 5, 6})
    /\ "path_min_length" \in passed => c.path_min_len >= 1
    /\ "path_max_length" \in passed => c.path_max_len >= 1

\* Config.validate_path_constraints: none of its checks raises
PathConstraintsValid(c) ==
    /\ ~(c.path_min_len > c.path_max_len /\ c.path_max_len > 0)
    /\ ~(Len(c.path_prefix) > c.path_max_len)
    /\ ~(Len(c.path_suffix) > c.path_max_len)
    /\ ~(Len(c.path_prefix) + Len(c.path_suffix) > c.path_max_len)
    /\ Range(c.path_prefix) \cap c.excluded_nodes = {}
    /\ Range(c.path_suffix) \cap c.excluded_nodes = {}

\* Config(**kwargs) returns an object
ConfigAccepts(c, passed) == FieldsValid(c, passed) /\ PathConstraintsValid(c)

\* the constructions of a Config: each number field is left out, and then has
\* its default, or is passed
ConfigInputs ==
    {[c |-> [grid_size |-> g.v, path_min_len |-> lo.v, path_max_len |-> hi.v,
             path_prefix |-> p, path_suffix |-> s, excluded_nodes |-> x],
      passed |-> {f \in NumberFields :
                     \/ f = "grid_size" /\ g.passed
                     \/ f = "path_min_length" /\ lo.passed
                     \/ f = "path_max_length" /\ hi.passed}] :
        g \in {[v |-> DefaultGridSize, passed |-> FALSE]}
                \cup {[v |-> n, passed |-> TRUE] : n \in {3, 7}},
        lo \in {[v |-> DefaultMinLength, passed |-> FALSE]}
                \cup {[v |-> n, passed |-> TRUE] : n \in {0, 1, 3}},
        hi \in {[v |-> DefaultMaxLength, passed |-> FALSE]}
                \cup {[v |-> n, passed |-> TRUE] : n \in {0, 2}},
        p \in {<<>>, <<"1">>, <<"1", "2", "3">>},
        s \in {<<>>, <<"9">>, <<"6", "9">>},
        x \in {{}, {"1"}, {"9"}}}

(***************************************************************************)
(* Lists handed out: "list(path)".                                         *)
(***************************************************************************)
\* variant of the operator below: the path handed out is the traversal's own
\* list, and a change of the one is a change of the other
SharedWith(own, other) == other

\* the value of a list after the list that was copied from it, or that it was
\* copied from, has changed to other: "yield list(path)" and
\* "self.process_path(list(path))" hand out a new list
Unshared(own, other) == own

(***************************************************************************)
(* PathFinder.__iter__: the enumerator.                                    *)
(***************************************************************************)
\* variant of the test below: the last node against the suffix nodes
SuffixMatchLast(c, path) ==
    c.path_suffix = <<>> \/ path[Len(path)] \in Range(c.path_suffix)

\* the suffix test of generate_paths and dfs_helper
SuffixMatch(c, path) ==
    IF c.path_suffix # <<>>
    THEN IF Len(path) >= Len(c.path_suffix)
         THEN LastK(path, Len(c.path_suffix)) = c.path_suffix
         ELSE FALSE
    ELSE TRUE

\* variant of the test below: the paths of the minimal length are left out
MeetsRequirementsLonger(c, path) ==
    Len(path) > c.path_min_len /\ SuffixMatch(c, path)

\* "if len(path) >= min and suffix_match: yield list(path)"
MeetsRequirements(c, path) ==
    Len(path) >= c.path_min_len /\ SuffixMatch(c, path)

\* variants of the test below: one without the exclusion of nodes, one
\* without the visited set
MayVisitExcluded(c, neighbor, visited) == neighbor \notin visited

MayVisitAgain(c, neighbor, visited) == neighbor \notin c.excluded_nodes

\* "if neighbor not in excluded_nodes and neighbor not in visited"
MayVisit(c, neighbor, visited) ==
    neighbor \notin c.excluded_nodes /\ neighbor \notin visited

RECURSIVE generate_paths(_, _, _, _)
RECURSIVE generate_from(_, _, _, _, _)

\* the paths generate_paths(node, path, visited) yields, in order
generate_paths(c, node, path, visited) ==
    LET p == Append(path, node)
        v == visited \cup {node}
        own == IF MeetsRequirements(c, p) THEN <<p>> ELSE <<>>
        rest == IF Len(p) < c.path_max_len
                THEN generate_from(c, node, p, v, 1)
                ELSE <<>>
    IN own \o rest

\* the loop over neighbors[node], from its i-th entry on
generate_from(c, node, p, v, i) ==
    LET list == Neighbors(c)[node] IN
    IF i > Len(list) THEN <<>>
    ELSE LET nb == list[i]
             sub == IF MayVisit(c, nb, v)
                    THEN generate_paths(c, nb, p, v)
                    ELSE <<>>
         IN sub \o generate_from(c, node, p, v, i + 1)

RECURSIVE iter_roots(_, _)

\* "for node in self._graph: if node not in excluded: yield from ..."
iter_roots(c, i) ==
    IF i > Len(Graph(c)) THEN <<>>
    ELSE (IF Graph(c)[i] \notin c.excluded_nodes
          THEN generate_paths(c, Graph(c)[i], <<>>, {})
          ELSE <<>>) \o iter_roots(c, i + 1)

\* one full iteration of PathFinder.__iter__
IterPaths(c) ==
    IF c.path_prefix # <<>>
    THEN generate_paths(c, c.path_prefix[Len(c.path_prefix)],
                        ButLast(c.path_prefix), Range(ButLast(c.path_prefix)))
    ELSE iter_roots(c, 1)

RECURSIVE roots_from(_, _, _)

\* the loop over the roots with path and visited as they are in loc; the
\* "finally" of a root discards it from visited before the next root
roots_from(c, i, loc) ==
    IF i > Len(Graph(c)) THEN <<>>
    ELSE IF Graph(c)[i] \notin c.excluded_nodes
         THEN generate_paths(c, Graph(c)[i], loc.path, loc.visited)
              \o roots_from(c, i + 1,
                            [loc EXCEPT !.visited = @ \ {Graph(c)[i]}])
         ELSE roots_from(c, i + 1, loc)

(***************************************************************************)
(* PathFinder._calculate_total_paths: the counter.                         *)
(***************************************************************************)
\* "if path[-1] in path_suffix or not path_suffix" with path_suffix a set
CounterSuffixOk(c, path) ==
    path[Len(path)] \in Range(c.path_suffix) \/ Range(c.path_suffix) = {}

RECURSIVE dfs_counter(_, _, _, _)
RECURSIVE dfs_counter_from(_, _, _, _, _)

\* what one call dfs_counter(node, path) adds to total_paths
dfs_counter(c, node, path, visited) ==
    LET p == Append(path, node)
        v == visited \cup {node}
        own == IF Len(p) >= c.path_min_len /\ CounterSuffixOk(c, p)
               THEN 1 ELSE 0
        rest == IF Len(p) < c.path_max_len
                THEN dfs_counter_from(c, node, p, v, 1)
                ELSE 0
    IN own + rest

dfs_counter_from(c, node, p, v, i) ==
    LET list == Neighbors(c)[node] IN
    IF i > Len(list) THEN 0
    ELSE LET nb == list[i]
             sub == IF MayVisit(c, nb, v) THEN dfs_counter(c, nb, p, v) ELSE 0
         IN sub + dfs_counter_from(c, node, p, v, i + 1)

RECURSIVE counter_roots(_, _)

\* "for node in self._graph: dfs_counter(node, [])"
counter_roots(c, i) ==
    IF i > Len(Graph(c)) THEN 0
    ELSE dfs_counter(c, Graph(c)[i], <<>>, Range(c.path_prefix))
         + counter_roots(c, i + 1)

\* the value of the local total_paths when the traversal is over
CountPaths(c) ==
    IF c.path_prefix = <<>>
    THEN counter_roots(c, 1)
    ELSE dfs_counter(c, c.path_prefix[Len(c.path_prefix)],
                     ButLast(c.path_prefix), Range(c.path_prefix))

(***************************************************************************)
(* Text: Python's str() of a path and the csv module's writer and reader   *)
(* (dialect excel: delimiter ",", quotechar '"', doublequote, "\r\n").     *)
(***************************************************************************)
RECURSIVE Join(_, _)

\* sep.join(parts)
Join(parts, sep) ==
    IF parts = <<>> THEN <<>>
    ELSE IF Len(parts) = 1 THEN parts[1]
    ELSE parts[1] \o sep \o Join(Tail(parts), sep)

\* repr() of a node: a one-character str without quote or backslash
PyRepr(node) == <<"'", node, "'">>

\* str(path) of a list of str: "['1', '2']"
PyStr(path) ==
    <<"[">> \o Join([i \in 1..Len(path) |-> PyRepr(path[i])], <<",", " ">>)
            \o <<"]">>

\* str(returncode) for the return codes 0..9
PyStrInt(n) ==
    <<CASE n = 0 -> "0" [] n = 1 -> "1" [] n = 2 -> "2" [] n = 3 -> "3"
        [] n = 4 -> "4" [] n = 5 -> "5" [] n = 6 -> "6" [] n = 7 -> "7"
        [] n = 8 -> "8" [] n = 9 -> "9">>

\* "marker in text"
Contains(text, marker) ==
    \E i \in 0..(Len(text) - Len(marker)) :
        SubSeq(text, i + 1, i + Len(marker)) = marker

RECURSIVE ReplaceNewlines(_)

\* result.stdout.replace('\n', '\\n')
ReplaceNewlines(text) ==
    IF text = <<>> THEN <<>>
    ELSE (IF Head(text) = "\n" THEN <<"\\", "n">> ELSE <<Head(text)>>)
         \o ReplaceNewlines(Tail(text))

CsvSpecial == {",", "\"", "\r", "\n"}

RECURSIVE DoubleQuotes(_)

DoubleQuotes(text) ==
    IF text = <<>> THEN <<>>
    ELSE (IF Head(text) = "\"" THEN <<"\"", "\"">> ELSE <<Head(text)>>)
         \o DoubleQuotes(Tail(text))

\* variant of the writer below: no quoting
CsvFieldPlain(text) == text

\* csv.writer, QUOTE_MINIMAL: a field holding a special character is quoted
CsvField(text) ==
    IF Range(text) \cap CsvSpecial # {}
    THEN <<"\"">> \o DoubleQuotes(text) \o <<"\"">>
    ELSE text

\* writer.writerow(fields)
CsvRow(fields) ==
    Join([i \in 1..Len(fields) |-> CsvField(fields[i])], <<",">>)
        \o <<"\r", "\n">>

\* the first index >= from of a character of S in text, Len(text) + 1 if none
FirstIn(text, from, S) ==
    IF \E i \in from..Len(text) : text[i] \in S
    THEN CHOOSE i \in from..Len(text) :
            text[i] \in S /\ \A j \in from..(i - 1) : text[j] \notin S
    ELSE Len(text) + 1

QuoteCount(text, a, b) == Cardinality({i \in a..b : text[i] = "\""})

\* the quote that ends the quoted field opened at s: the first one that is
\* not the first of a doubled quote; Len(text) + 1 if the field never ends
ClosingQuote(text, s) ==
    LET n == Len(text)
        closes(j) == /\ text[j] = "\""
                     /\ QuoteCount(text, s + 1, j - 1) % 2 = 0
                     /\ (j = n \/ text[j + 1] # "\"")
    IN IF \E j \in (s + 1)..n : closes(j)
       THEN CHOOSE j \in (s + 1)..n : closes(j) /\ \A k \in (s + 1)..(j - 1) : ~closes(k)
       ELSE n + 1

\* the content of a quoted field: each doubled quote is one quote
Unescape(x) ==
    LET keep == {i \in 1..Len(x) : x[i] # "\"" \/ QuoteCount(x, 1, i) % 2 = 1}
    IN [k \in 1..Cardinality(keep) |->
           x[CHOOSE i \in keep : Cardinality({j \in keep : j <= i}) = k]]

\* the index after the line break at e ("\r\n" is one line break)
AfterEol(text, e) ==
    IF text[e] = "\r" /\ e < Len(text) /\ text[e + 1] = "\n" THEN e + 2 ELSE e + 1

RECURSIVE CsvParse(_, _, _, _, _)

\* csv.reader over the text of a file opened with newline='': the rows read
\* from text[s..], given the complete `rows` and the fields `row` of the
\* current record; `fresh` when s is the start of a record.
CsvParse(text, s, fresh, rows, row) ==
    LET n == Len(text) IN
    IF s > n
    THEN IF fresh THEN rows ELSE Append(rows, Append(row, <<>>))
    ELSE IF fresh /\ text[s] \in {"\r", "\n"}
    THEN CsvParse(text, AfterEol(text, s), TRUE, Append(rows, <<>>), <<>>)
    ELSE LET quoted == text[s] = "\""
             q == IF quoted THEN ClosingQuote(text, s) ELSE s - 1
             e == FirstIn(text, q + 1, {",", "\r", "\n"})
             field == IF quoted
                      THEN Unescape(SubSeq(text, s + 1, q - 1)) \o SubSeq(text, q + 1, e - 1)
                      ELSE SubSeq(text, s, e - 1)
         IN IF e > n
            THEN Append(rows, Append(row, field))
            ELSE IF text[e] = ","
            THEN CsvParse(text, e + 1, FALSE, rows, Append(row, field))
            ELSE CsvParse(text, AfterEol(text, e), TRUE,
                          Append(rows, Append(row, field)), <<>>)

\* list(csv.reader(f))
CsvRows(text) == CsvParse(text, 1, TRUE, <<>>, <<>>)

(***************************************************************************)
(* The ledger store: PathHandler.get_attempted_paths and                   *)
(* LogHandler.handle_path.  A store is [exists, text].                     *)
(***************************************************************************)
TimestampField == <<"t", "i", "m", "e", "s", "t", "a", "m", "p">>

HeaderRow ==
    <<TimestampField, <<"p", "a", "t", "h">>, <<"r", "e", "s", "u", "l", "t">>,
      <<"i", "n", "f", "o">>>>

\* datetime.now().strftime(...): digits, "-", " " and ":"; shortened
Timestamp == <<"0", "1", " ", "1", "9", ":", "2", "2">>

\* variant of the operator below: the store is opened for writing whether
\* it exists or not
StoreAfterLoadRewritten(st) == [exists |-> TRUE, text |-> CsvRow(HeaderRow)]

\* the store after get_attempted_paths: created with a header when absent
StoreAfterLoad(st) ==
    IF ~st.exists
    THEN [exists |-> TRUE, text |-> CsvRow(HeaderRow)]
    ELSE st

\* the keys of the data rows among rows[from..]: "if len(row) >= 2"
RowKeys(rows, from) ==
    {rows[i][2] : i \in {j \in from..Len(rows) : Len(rows[j]) >= 2}}

\* the rows get_attempted_paths reads: list(csv.reader(f)), none when the
\* store is created
LoadedRows(st) == IF st.exists THEN CsvRows(st.text) ELSE <<>>

\* variant of the operator below: the first row is always taken for a header
AttemptedOfHeaderAssumed(rows) == RowKeys(rows, 2)

\* the keys collected from the rows: the first row when it is not a header,
\* then the rows after it
AttemptedOf(rows) ==
    IF rows = <<>> THEN {}
    ELSE (IF rows[1] # <<>> /\ rows[1][1] # TimestampField
          THEN RowKeys(<<rows[1]>>, 1)
          ELSE {})
         \cup RowKeys(rows, 2)

\* the set get_attempted_paths returns
AttemptedPaths(st) == AttemptedOf(LoadedRows(st))

\* the rows a warning is logged for: "for row in reader: ... else:
\* self.logger.warning(...)", the loop that follows the first row
WarnedOf(rows) ==
    SelectSeq(SubSeq(rows, 2, Len(rows)), LAMBDA row : Len(row) < 2)

\* the rows get_attempted_paths logs a warning for
LoadWarnings(st) == WarnedOf(LoadedRows(st))

\* variant: the row is not written
StoreAfterAppendLost(st, timestamp, path, returncode, info) == st

\* the store after LogHandler.handle_path(timestamp, path, returncode, info)
StoreAfterAppend(st, timestamp, path, returncode, info) ==
    [exists |-> TRUE,
     text |-> st.text \o CsvRow(<<timestamp, PyStr(path), PyStrInt(returncode), info>>)]

(***************************************************************************)
(* The runs of main(): configurations, handler chains and the device.      *)
(***************************************************************************)
\* the number of runs of main() against one ledger store
MaxRuns == 2

\* no prefix: the roots are taken from the node list
RootsScenario ==
    [grid_size |-> 3, path_min_len |-> 1, path_max_len |-> 2, path_prefix |-> <<>>,
     path_suffix |-> <<"9">>,
     excluded_nodes |-> {"2", "3", "4", "5", "6", "7"}]

\* no path at all: [1, 9] is not a path of the grid
NoPathScenario ==
    [grid_size |-> 3, path_min_len |-> 2, path_max_len |-> 2,
     path_prefix |-> <<"1">>, path_suffix |-> <<"9">>, excluded_nodes |-> {}]

\* no path ends with the suffix [6, 2], paths end with 6 and with 2
LastNodeScenario ==
    [grid_size |-> 3, path_min_len |-> 3, path_max_len |-> 3,
     path_prefix |-> <<"1">>, path_suffix |-> <<"6", "2">>, excluded_nodes |-> {}]

\* a grid size without a graph
NoGridScenario ==
    [grid_size |-> 7, path_min_len |-> 1, path_max_len |-> 2,
     path_prefix |-> <<>>, path_suffix |-> <<>>, excluded_nodes |-> {}]

\* a prefix with the same node twice, which Config accepts
CyclePrefixScenario ==
    [grid_size |-> 3, path_min_len |-> 2, path_max_len |-> 2,
     path_prefix |-> <<"1", "1">>, path_suffix |-> <<>>, excluded_nodes |-> {}]

MainConfigs ==
    {Scenario, RootsScenario, NoPathScenario, LastNodeScenario, NoGridScenario,
     CyclePrefixScenario}

\* constraint sets that are searched with a chain that never matches: every
\* root with one excluded, and a prefix of two nodes with a suffix
WideScenarios ==
    {[grid_size |-> 3, path_min_len |-> 1, path_max_len |-> 2,
      path_prefix |-> <<>>, path_suffix |-> <<>>, excluded_nodes |-> {"5"}],
     [grid_size |-> 3, path_min_len |-> 3, path_max_len |-> 4,
      path_prefix |-> <<"1", "2">>, path_suffix |-> <<"6">>, excluded_nodes |-> {}]}

\* handler_classes of main.py: 'a' ADBHandler, 'p' PrintHandler, 't' TestHandler
\* and 'm', a handler of the caller's own that changes the list it is given
Chains == {<<"a">>, <<"t">>, <<"a", "t">>, <<"t", "a">>, <<"p", "a", "t">>, <<"m">>}

\* config.test_path
TestPaths == {<<"1", "4", "8", "9">>, <<"8", "9">>}

\* config.attempt_delay, in milliseconds
AttemptDelays == {0, 1000}

\* config.stdout_success and config.stdout_normal
stdout_success == <<"O", "K">>

stdout_normal == <<"N", "O">>

\* what subprocess.run of the decrypt command can do
DeviceOutcomes ==
    {[kind |-> "timeout", rc |-> 0, stdout |-> <<>>],
     [kind |-> "error", rc |-> 0, stdout |-> <<>>],
     [kind |-> "response", rc |-> 0, stdout |-> <<"O", "K", "\n">>],
     [kind |-> "response", rc |-> 0, stdout |-> <<"N", "O", "\n">>],
     [kind |-> "response", rc |-> 1, stdout |-> <<"O", "K", "\n">>]}

NoStore == [exists |-> FALSE, text |-> <<>>]

InitialStores == {NoStore}

\* the ledger used on its own: the appends made before it is loaded again
MaxAppends == 2

\* lines of a store: a record of one field, a blank line, a data record
OneFieldLine == <<"x", "\r", "\n">>
BlankLine == <<"\r", "\n">>
DataLine == <<"a", ",", "b", "\r", "\n">>
HeaderLine == <<"t", "i", "m", "e", "s", "t", "a", "m", "p", ",",
                "p", "a", "t", "h", "\r", "\n">>

\* the stores a load starts from: none, an empty one, one with a header,
\* and stores with a malformed record as the first row or after it
LedgerStores ==
    {NoStore, [exists |-> TRUE, text |-> <<>>],
     [exists |-> TRUE, text |-> HeaderLine]}
    \cup {[exists |-> TRUE, text |-> t] :
             t \in {OneFieldLine \o DataLine, BlankLine \o DataLine,
                    HeaderLine \o OneFieldLine \o DataLine}}

LedgerPaths == {p \in SeqsUpTo({"1", ";"}, 2) : p # <<>> /\ NoRepeat(p)}

\* the return code and info text of a record: an empty text, and a text with
\* the characters the csv writer quotes
LedgerResults ==
    {[rc |-> 0, info |-> <<>>],
     [rc |-> 1, info |-> <<",", "\"", "\r", "'">>]}

(***************************************************************************)
(* State.                                                                  *)
(***************************************************************************)
VARIABLES
    mode,           \* "config": a Config object is constructed;
                    \* "procs": processes use one ledger store concurrently;
                    \* "enum": the PathFinder is used as a library object;
                    \* "main": it is driven by main();
                    \* "ledger": the ledger store is used on its own
    cfg,            \* the constraint set the PathFinder was constructed with
    given,          \* the fields of it that were passed to Config(...)
    total_paths,    \* PathFinder._total_paths; -1 is None
    raised,         \* the exception that ended the last operation, "" if none
    iterated,       \* a full iteration of __iter__ has been made
    yielded,        \* the paths that iteration yielded, in order
    modes,          \* args.mode: the handler letters, in registration order
    test_path,      \* config.test_path
    attempt_delay,  \* config.attempt_delay
    store,          \* the ledger file config.paths_log_file_path
    run,            \* the number of the current run of main()
    state,          \* Idle, Running, Found, Exhausted, Interrupted, Fatal
    pc,             \* where the run is
    handlers,       \* PathFinder._handlers, each with its own fields
    path,           \* dfs(): the traversal's current path
    visited,        \* dfs(): the traversal's visited set
    stack,          \* dfs(): the active dfs_helper calls, [node, i]: i is the
                    \* position of the call's loop over neighbors[node]
    root_i,         \* dfs(): the position of the loop over the roots
    candidate,      \* process_path's argument: list(path)
    h,              \* process_path: the position of the loop over handlers
    response,       \* ADBHandler.handle_path: result of subprocess.run
    delay_left,     \* ADBHandler.handle_path: seconds of countdown left
    result,         \* what dfs() returned: [success, path]
    trace,          \* history: what this run did, in order
    recorded,       \* history: the paths appended to the store by earlier runs
    executed,       \* history: the paths earlier runs ran the device command for
    procs           \* the processes that use one ledger store at the same
                    \* time, each [op, pc, lock, buf, seen]

cfgvars == <<mode, cfg, given, modes, test_path, attempt_delay>>

enumvars == <<raised, iterated, yielded>>

dfsvars == <<path, visited, stack, root_i>>

vars == <<mode, cfg, given, total_paths, raised, iterated, yielded, modes, test_path,
          attempt_delay, store, run, state, pc, handlers, path, visited, stack,
          root_i, candidate, h, response, delay_left, result, trace, recorded,
          executed, procs>>

None == -1

NoResponse == [kind |-> "none", rc |-> 0, stdout |-> <<>>]

NoResult == [success |-> FALSE, path |-> <<>>]

\* the memory of a process that has not started
Fresh ==
    /\ total_paths = None
    /\ state = "Idle"
    /\ pc = "start"
    /\ handlers = <<>>
    /\ path = <<>>
    /\ visited = {}
    /\ stack = <<>>
    /\ root_i = 1
    /\ candidate = <<>>
    /\ h = 1
    /\ response = NoResponse
    /\ delay_left = 0
    /\ result = NoResult
    /\ trace = <<>>

InitConfig ==
    /\ mode = "config"
    /\ \E i \in ConfigInputs : cfg = i.c /\ given = i.passed
    /\ raised = ""
    /\ iterated = FALSE
    /\ yielded = <<>>
    /\ modes = <<>>
    /\ test_path = <<>>
    /\ attempt_delay = 0
    /\ store = NoStore
    /\ run = 1
    /\ recorded = {}
    /\ executed = {}
    /\ procs = <<>>
    /\ Fresh

InitEnum ==
    /\ mode = "enum"
    /\ cfg \in Configs
    /\ given = NumberFields
    /\ raised = ""
    /\ iterated = FALSE
    /\ yielded = <<>>
    /\ modes = <<>>
    /\ test_path = <<>>
    /\ attempt_delay = 0
    /\ store = NoStore
    /\ run = 1
    /\ recorded = {}
    /\ executed = {}
    /\ procs = <<>>
    /\ Fresh

InitMain ==
    /\ mode = "main"
    /\ \/ cfg \in MainConfigs /\ modes \in Chains
       \/ cfg \in WideScenarios /\ modes = <<"p">>
    /\ given = NumberFields
    /\ raised = ""
    /\ iterated = FALSE
    /\ yielded = <<>>
    /\ test_path \in (IF "t" \in Range(modes) THEN TestPaths ELSE {<<>>})
    /\ attempt_delay \in (IF modes = <<"a">> THEN AttemptDelays ELSE {0})
    /\ store \in InitialStores
    /\ run = 1
    /\ recorded = {}
    /\ executed = {}
    /\ procs = <<>>
    /\ Fresh

InitLedger ==
    /\ mode = "ledger"
    /\ cfg = Scenario
    /\ given = NumberFields
    /\ raised = ""
    /\ iterated = FALSE
    /\ yielded = <<>>
    /\ modes = <<>>
    /\ test_path = <<>>
    /\ attempt_delay = 0
    /\ store \in LedgerStores
    /\ run = 1
    /\ recorded = {}
    /\ executed = {}
    /\ procs = <<>>
    /\ Fresh

(***************************************************************************)
(* History and handler construction.                                       *)
(***************************************************************************)
Event(e, i, p) == [ev |-> e, h |-> i, path |-> p]

Log(events) == trace' = trace \o events

\* a handler as constructed: ADBHandler.__init__ loads the ledger and resumes
\* its attempt number from it; TestHandler starts at 0; warned is the rows
\* its logger has warned about
NewHandler(kind, st) ==
    IF kind = "a"
    THEN LET rows == LoadedRows(st)
             loaded == AttemptedOf(rows)
         IN  [kind |-> kind, attempted_paths |-> loaded,
              current_path_number |-> Cardinality(loaded),
              warned |-> WarnedOf(rows)]
    ELSE [kind |-> kind, attempted_paths |-> {}, current_path_number |-> 0,
          warned |-> <<>>]

(***************************************************************************)
(* The construction of a Config.                                           *)
(***************************************************************************)
\* Config(**kwargs): the object is returned, or a ValidationError is raised
\* and there is no object
ConfigConstruct ==
    /\ mode = "config" /\ pc = "start"
    /\ IF ConfigAccepts(cfg, given)
       THEN /\ pc' = "accepted"
            /\ UNCHANGED raised
       ELSE /\ pc' = "rejected"
            /\ raised' = "ValidationError"
    /\ UNCHANGED <<cfgvars, procs, executed, total_paths, iterated, yielded, store, run, state,
                   handlers, dfsvars, candidate, h, response, delay_left, result,
                   trace, recorded>>

(***************************************************************************)
(* The PathFinder used as a library object.                                *)
(***************************************************************************)
\* PathFinder(grid_size, ...): __init__ raises for a grid size without a graph
Construct ==
    /\ mode = "enum" /\ pc = "start"
    /\ IF SupportedSize(cfg.grid_size)
       THEN /\ pc' = "ready"
            /\ UNCHANGED raised
       ELSE /\ pc' = "failed"
            /\ raised' = "ValueError: Unsupported grid size"
    /\ UNCHANGED <<cfgvars, procs, executed, total_paths, iterated, yielded, store, run, state,
                   handlers, dfsvars, candidate, h, response, delay_left, result,
                   trace, recorded>>

\* the property PathFinder.total_paths: computed on first access, then
\* cached; it is not read after a traversal that was given up
TotalPaths ==
    /\ mode = "enum" /\ pc = "ready"
    /\ total_paths = None
    /\ raised = ""
    /\ trace = <<>>
    /\ LET n == CountPaths(cfg)
       IN IF n = 0
          THEN /\ raised' = "ValueError: No paths found"
               /\ total_paths' = None
          ELSE /\ total_paths' = n
               /\ raised' = ""
    /\ UNCHANGED <<cfgvars, procs, executed, iterated, yielded, store, run, state, pc, handlers,
                   dfsvars, candidate, h, response, delay_left, result, trace,
                   recorded>>

\* variant of the locals below: the traversal goes on with the path and the
\* visited set the traversal before it left
IterLocalsKept == [path |-> path, visited |-> visited]

\* __iter__: "path = []; visited = set()": every call of the generator
\* function has its own
IterLocals == [path |-> <<>>, visited |-> {}]

\* __iter__ from given locals: the paths it yields when it is run to its end
Traversal(c, loc) ==
    IF c.path_prefix # <<>>
    THEN generate_paths(c, c.path_prefix[Len(c.path_prefix)],
                        loc.path \o ButLast(c.path_prefix),
                        loc.visited \cup Range(ButLast(c.path_prefix)))
    ELSE roots_from(c, 1, loc)

\* __iter__ from given locals: path and visited when the generator is
\* exhausted or closed: every "finally" of generate_paths has popped its node
\* from path and discarded it from visited
LocalsAfter(c, loc) ==
    IF c.path_prefix # <<>>
    THEN [path |-> loc.path \o ButLast(c.path_prefix),
          visited |-> (loc.visited \cup Range(ButLast(c.path_prefix)))
                          \ {c.path_prefix[Len(c.path_prefix)]}]
    ELSE [path |-> loc.path,
          visited |-> loc.visited \ (Range(Graph(c)) \ c.excluded_nodes)]

\* the lists a caller holds after a traversal that yielded paths and left
\* the traversal's own list as own
HandedOut(paths, own) == [i \in 1..Len(paths) |-> Unshared(paths[i], own)]

\* list(path_finder): one full iteration of __iter__, the first one or one
\* more
Iterate ==
    /\ mode = "enum" /\ pc = "ready"
    /\ iterated' = TRUE
    /\ LET paths == Traversal(cfg, IterLocals)
           after == LocalsAfter(cfg, IterLocals)
       IN  /\ yielded' = HandedOut(paths, after.path)
           /\ path' = after.path
           /\ visited' = after.visited
    /\ UNCHANGED <<cfgvars, procs, executed, total_paths, raised, store, run, state, pc, handlers,
                   stack, root_i, candidate, h, response, delay_left, result,
                   trace, recorded>>

\* it = iter(path_finder); next(it); it.close(): an iteration that is given
\* up at its first yield, before any other use of the object
IterateAbandoned ==
    /\ mode = "enum" /\ pc = "ready"
    /\ trace = <<>> /\ ~iterated /\ total_paths = None /\ raised = ""
    /\ LET paths == Traversal(cfg, IterLocals)
           after == LocalsAfter(cfg, IterLocals)
       IN  /\ paths # <<>>
           /\ Log(<<Event("abandon", 0, paths[1])>>)
           /\ path' = after.path
           /\ visited' = after.visited
    /\ UNCHANGED <<cfgvars, procs, executed, total_paths, enumvars, store, run, state, pc,
                   handlers, stack, root_i, candidate, h, response, delay_left,
                   result, recorded>>

(***************************************************************************)
(* The ledger used on its own.                                             *)
(***************************************************************************)
\* LogHandler.handle_path(timestamp, path, returncode, info)
LedgerAppend ==
    /\ mode = "ledger" /\ pc # "reloaded"
    /\ Len(trace) < MaxAppends
    /\ \E p \in LedgerPaths, r \in LedgerResults :
        /\ store' = StoreAfterAppend(store, Timestamp, p, r.rc, r.info)
        /\ recorded' = recorded \cup {p}
        /\ trace' = Append(trace, [ev |-> "append", h |-> 0, path |-> p])
    /\ pc' = "appended"
    /\ UNCHANGED <<cfgvars, procs, executed, enumvars, total_paths, run, state, handlers, dfsvars,
                   candidate, h, response, delay_left, result>>

\* a handler is constructed: PathHandler.get_attempted_paths loads the store;
\* a second handler may be constructed right after the first, for the store
\* as it was found
LedgerLoad ==
    /\ mode = "ledger"
    /\ pc # "reloaded"
    /\ pc = "loaded" => trace = <<>>
    /\ handlers' = IF pc = "loaded"
                   THEN Append(handlers, NewHandler("a", store))
                   ELSE <<NewHandler("a", store)>>
    /\ store' = StoreAfterLoad(store)
    /\ pc' = IF pc = "loaded" THEN "reloaded" ELSE "loaded"
    /\ UNCHANGED <<cfgvars, procs, executed, enumvars, total_paths, run, state, dfsvars, candidate,
                   h, response, delay_left, result, trace, recorded>>

(***************************************************************************)
(* main(): construction.                                                   *)
(***************************************************************************)
\* main.py: Config.load_config, which passes every field to Config(...),
\* then PathFinder(...) and the first access of path_finder.total_paths; the
\* error of a rejected configuration, of an unsupported grid size or of a
\* count of 0 makes main exit
MainInit ==
    /\ mode = "main" /\ state = "Idle" /\ pc = "start"
    /\ LET n == IF ConfigAccepts(cfg, given) /\ SupportedSize(cfg.grid_size)
                THEN CountPaths(cfg) ELSE 0
       IN IF n = 0
          THEN /\ state' = "Fatal"
               /\ pc' = "exit"
               /\ UNCHANGED total_paths
          ELSE /\ total_paths' = n
               /\ pc' = "handlers"
               /\ UNCHANGED state
    /\ UNCHANGED <<cfgvars, procs, executed, enumvars, store, run, handlers, dfsvars, candidate,
                   h, response, delay_left, result, trace, recorded>>

\* main.py: "for mode in args.mode": construct the handler and add_handler.
\* ADBHandler.__init__ loads the ledger, where the error of creating an
\* absent store is logged and the empty set returned; it raises when
\* "adb start-server" fails, and main exits.
MainAddHandler ==
    /\ mode = "main" /\ state = "Idle" /\ pc = "handlers"
    /\ Len(handlers) < Len(modes)
    /\ LET kind == modes[Len(handlers) + 1]
       IN \E adb_ok \in (IF kind = "a" THEN BOOLEAN ELSE {TRUE}),
             created \in (IF kind = "a" /\ ~store.exists THEN BOOLEAN ELSE {TRUE}) :
            /\ store' = (IF kind = "a" /\ created THEN StoreAfterLoad(store)
                         ELSE store)
            /\ IF created
               THEN UNCHANGED trace
               ELSE Log(<<Event("create_failed", Len(handlers) + 1, <<>>)>>)
            /\ IF adb_ok
               THEN /\ handlers' = Append(handlers, NewHandler(kind, store))
                    /\ UNCHANGED <<state, pc>>
               ELSE /\ state' = "Fatal"
                    /\ pc' = "exit"
                    /\ UNCHANGED handlers
    /\ UNCHANGED <<cfgvars, procs, executed, enumvars, total_paths, run, dfsvars, candidate, h,
                   response, delay_left, result, recorded>>

\* main.py: path_finder.dfs() is called; dfs() seeds path and visited with
\* the prefix but its last node
MainStartSearch ==
    /\ mode = "main" /\ state = "Idle" /\ pc = "handlers"
    /\ Len(handlers) = Len(modes)
    /\ state' = "Running"
    /\ pc' = "root"
    /\ path' = ButLast(cfg.path_prefix)
    /\ visited' = Range(ButLast(cfg.path_prefix))
    /\ stack' = <<>>
    /\ root_i' = 1
    /\ UNCHANGED <<cfgvars, procs, executed, enumvars, total_paths, store, run, handlers,
                   candidate, h, response, delay_left, result, trace, recorded>>

(***************************************************************************)
(* PathFinder.dfs and dfs_helper.                                          *)
(***************************************************************************)
\* the entry of dfs_helper(node, path, visited)
Push(node) ==
    /\ path' = Append(path, node)
    /\ visited' = visited \cup {node}
    /\ stack' = Append(stack, [node |-> node, i |-> 1])
    /\ pc' = "check"

\* variant: every node of the grid is a root, excluded or not
RootsLeftAll ==
    IF cfg.path_prefix # <<>>
    THEN {i \in {1} : root_i = 1}
    ELSE root_i..Len(Graph(cfg))

\* the roots dfs() may still start from, as positions of its loop
RootsLeft ==
    IF cfg.path_prefix # <<>>
    THEN {i \in {1} : root_i = 1}
    ELSE {i \in root_i..Len(Graph(cfg)) : Graph(cfg)[i] \notin cfg.excluded_nodes}

RootNode(i) ==
    IF cfg.path_prefix # <<>> THEN cfg.path_prefix[Len(cfg.path_prefix)]
    ELSE Graph(cfg)[i]

Min(S) == CHOOSE x \in S : \A y \in S : x <= y

\* dfs(): dfs_helper is called for the next root
DfsCallRoot ==
    /\ state = "Running" /\ pc = "root"
    /\ RootsLeft # {}
    /\ Push(RootNode(Min(RootsLeft)))
    /\ root_i' = Min(RootsLeft) + 1
    /\ UNCHANGED <<cfgvars, procs, executed, enumvars, total_paths, store, run, state, handlers,
                   candidate, h, response, delay_left, result, trace, recorded>>

\* dfs(): no root is left: "return (False, [])"
DfsExhausted ==
    /\ state = "Running" /\ pc = "root"
    /\ RootsLeft = {}
    /\ pc' = "report"
    /\ result' = [success |-> FALSE, path |-> <<>>]
    /\ UNCHANGED <<cfgvars, procs, executed, enumvars, total_paths, store, run, state, handlers,
                   dfsvars, candidate, h, response, delay_left, trace, recorded>>

\* dfs_helper: "if len(path) >= min and suffix_match: process_path(list(path))"
DfsCheck ==
    /\ state = "Running" /\ pc = "check"
    /\ IF MeetsRequirements(cfg, path)
       THEN /\ candidate' = path
            /\ h' = 1
            /\ pc' = "process"
            /\ Log(<<Event("offer", 0, path)>>)
       ELSE /\ pc' = "loop"
            /\ UNCHANGED <<candidate, h, trace>>
    /\ UNCHANGED <<cfgvars, procs, executed, enumvars, total_paths, store, run, state, handlers,
                   dfsvars, response, delay_left, result, recorded>>

\* the positions of the loop over neighbors[node] that lead to a call
Eligible(frame) ==
    IF Len(path) < cfg.path_max_len
    THEN {i \in frame.i..Len(Neighbors(cfg)[frame.node]) :
            MayVisit(cfg, Neighbors(cfg)[frame.node][i], visited)}
    ELSE {}

Top == stack[Len(stack)]

\* dfs_helper: the loop reaches a neighbor to visit and calls dfs_helper
DfsDescend ==
    /\ state = "Running" /\ pc = "loop"
    /\ Eligible(Top) # {}
    /\ LET i == Min(Eligible(Top))
       IN /\ path' = Append(path, Neighbors(cfg)[Top.node][i])
          /\ visited' = visited \cup {Neighbors(cfg)[Top.node][i]}
          /\ stack' = Append([stack EXCEPT ![Len(stack)].i = i + 1],
                             [node |-> Neighbors(cfg)[Top.node][i], i |-> 1])
          /\ pc' = "check"
    /\ UNCHANGED <<cfgvars, procs, executed, enumvars, total_paths, store, run, state, handlers,
                   root_i, candidate, h, response, delay_left, result, trace,
                   recorded>>

\* variant of the step below: the node stays in visited
PopPathOnly ==
    /\ path' = ButLast(path)
    /\ visited' = visited
    /\ stack' = ButLast(stack)

\* "finally: path.pop(); visited.discard(node)" and the return to the caller
Pop ==
    /\ path' = ButLast(path)
    /\ visited' = visited \ {Top.node}
    /\ stack' = ButLast(stack)

\* dfs_helper: the loop is over: "return (False, None)"
DfsReturn ==
    /\ state = "Running" /\ pc = "loop"
    /\ Eligible(Top) = {}
    /\ Pop
    /\ pc' = (IF Len(stack) = 1 THEN "root" ELSE "loop")
    /\ UNCHANGED <<cfgvars, procs, executed, enumvars, total_paths, store, run, state, handlers,
                   root_i, candidate, h, response, delay_left, result, trace,
                   recorded>>

\* variant of the step below: the loop over the neighbors goes on
AfterSuccessLoop == "loop"

\* where a call goes when process_path or a nested call reported success:
\* "if success: return (True, result_path)"
AfterSuccess == "unwind"

\* dfs_helper returns (True, result_path) to its caller
DfsUnwind ==
    /\ state = "Running" /\ pc = "unwind"
    /\ stack # <<>>
    /\ Pop
    /\ UNCHANGED <<cfgvars, procs, executed, enumvars, total_paths, store, run, state, pc,
                   handlers, root_i, candidate, h, response, delay_left, result,
                   trace, recorded>>

\* dfs() returns (True, result_path) to main
DfsFound ==
    /\ state = "Running" /\ pc = "unwind"
    /\ stack = <<>>
    /\ pc' = "report"
    /\ UNCHANGED <<cfgvars, procs, executed, enumvars, total_paths, store, run, state, handlers,
                   dfsvars, candidate, h, response, delay_left, result, trace,
                   recorded>>

\* main(): "if success: ... SUCCESS! Pattern found ... else: ... Search
\* completed. No successful pattern found."; the report is still inside the
\* try block of the search
MainReport ==
    /\ state = "Running" /\ pc = "report"
    /\ state' = (IF result.success THEN "Found" ELSE "Exhausted")
    /\ pc' = "exit"
    /\ UNCHANGED <<cfgvars, procs, executed, enumvars, total_paths, store, run, handlers, dfsvars,
                   candidate, h, response, delay_left, result, trace, recorded>>

(***************************************************************************)
(* PathFinder.process_path and the handlers.                               *)
(***************************************************************************)
\* variant of the step below: one handler is passed over
SkipHandler(i) == i + 2

\* process_path: the loop goes on to the next handler
NextHandler(i) == i + 1

\* a handler returned (False, None)
NotMatched ==
    /\ h' = NextHandler(h)
    /\ pc' = "process"
    /\ UNCHANGED result

\* variant of the step below: the loop over the handlers goes on
MatchedGoesOn(p) ==
    /\ result' = [success |-> TRUE, path |-> p]
    /\ h' = h + 1
    /\ pc' = "process"

\* a handler returned (True, p), process_path returns it and so does dfs_helper
Matched(p) ==
    /\ result' = [success |-> TRUE, path |-> p]
    /\ pc' = AfterSuccess
    /\ UNCHANGED h

Counted(i) ==
    [handlers EXCEPT ![i].current_path_number = handlers[i].current_path_number + 1]

\* process_path: every handler was called: "return False, None"
ProcessNoMatch ==
    /\ state = "Running" /\ pc = "process"
    /\ h > Len(handlers)
    /\ pc' = "loop"
    /\ UNCHANGED <<cfgvars, procs, executed, enumvars, total_paths, store, run, state, handlers,
                   dfsvars, candidate, h, response, delay_left, result, trace,
                   recorded>>

\* PrintHandler.handle_path
HandlePrint ==
    /\ state = "Running" /\ pc = "process"
    /\ h <= Len(handlers) /\ handlers[h].kind = "p"
    /\ Log(<<Event("call", h, candidate)>>)
    /\ NotMatched
    /\ UNCHANGED <<cfgvars, procs, executed, enumvars, total_paths, store, run, state, handlers,
                   dfsvars, candidate, response, delay_left, recorded>>

\* a handler of the caller's own (a PathHandler subclass registered with
\* add_handler) whose handle_path removes the last node of the list it is
\* given and returns (False, None)
HandleMutating ==
    /\ state = "Running" /\ pc = "process"
    /\ h <= Len(handlers) /\ handlers[h].kind = "m"
    /\ candidate # <<>>
    /\ Log(<<Event("call", h, candidate), Event("mutate", h, ButLast(candidate))>>)
    /\ candidate' = ButLast(candidate)
    /\ path' = Unshared(path, ButLast(candidate))
    /\ NotMatched
    /\ UNCHANGED <<cfgvars, procs, executed, enumvars, total_paths, store, run, state, handlers,
                   visited, stack, root_i, response, delay_left, recorded>>

\* variant of the test below: the lengths are compared
TestMatchesLength(p) == Len(p) = Len(test_path)

\* TestHandler: "if path == self.test_path"
TestMatches(p) == p = test_path

\* TestHandler.handle_path
HandleTest ==
    /\ state = "Running" /\ pc = "process"
    /\ h <= Len(handlers) /\ handlers[h].kind = "t"
    /\ handlers' = Counted(h)
    /\ IF TestMatches(candidate)
       THEN /\ Log(<<Event("call", h, candidate), Event("match", h, candidate)>>)
            /\ Matched(candidate)
       ELSE /\ Log(<<Event("call", h, candidate)>>)
            /\ NotMatched
    /\ UNCHANGED <<cfgvars, procs, executed, enumvars, total_paths, store, run, state, dfsvars,
                   candidate, response, delay_left, recorded>>

\* variant of the key below: the nodes joined
PathKeyJoined(p) == Join([i \in 1..Len(p) |-> <<p[i]>>], <<>>)

\* ADBHandler: "path_str = str(path)"
PathKey(p) == PyStr(p)

\* variant of the test below: no path is taken for attempted
AlreadyAttemptedNever(handler, p) == FALSE

\* ADBHandler: "if path_str in self.attempted_paths"
AlreadyAttempted(handler, p) == PathKey(p) \in handler.attempted_paths

\* ADBHandler.handle_path, to the membership test
AdbBegin ==
    /\ state = "Running" /\ pc = "process"
    /\ h <= Len(handlers) /\ handlers[h].kind = "a"
    /\ handlers' = Counted(h)
    /\ IF AlreadyAttempted(handlers[h], candidate)
       THEN /\ Log(<<Event("call", h, candidate), Event("skip", h, candidate)>>)
            /\ NotMatched
       ELSE /\ Log(<<Event("call", h, candidate), Event("contains", h, candidate)>>)
            /\ pc' = "adb_cmd"
            /\ UNCHANGED <<h, result>>
    /\ UNCHANGED <<cfgvars, procs, executed, enumvars, total_paths, store, run, state, dfsvars,
                   candidate, response, delay_left, recorded>>

\* variant of the step below: the run ends, as in the handler of the
\* repository's root directory ("sys.exit(1)")
AfterTimeoutExit == "exit"

\* "except subprocess.TimeoutExpired: ... return False, None": process_path
\* goes on
AfterTimeout == "process"

\* ADBHandler.handle_path: subprocess.run of the decrypt command; a timeout
\* or another exception (the adb executable is not found, ...) is
\* "return False, None"
AdbCommand ==
    /\ state = "Running" /\ pc = "adb_cmd"
    /\ \E outcome \in DeviceOutcomes :
        CASE outcome.kind = "response" ->
                /\ Log(<<Event("cmd", h, candidate)>>)
                /\ response' = outcome
                /\ pc' = "adb_log"
                /\ UNCHANGED <<h, result>>
          [] outcome.kind = "timeout" ->
                /\ Log(<<Event("cmd", h, candidate), Event("timeout", h, candidate)>>)
                /\ h' = NextHandler(h)
                /\ pc' = AfterTimeout
                /\ UNCHANGED <<response, result>>
          [] outcome.kind = "error" ->
                /\ Log(<<Event("cmd", h, candidate), Event("error", h, candidate)>>)
                /\ NotMatched
                /\ UNCHANGED response
    /\ UNCHANGED <<cfgvars, procs, executed, enumvars, total_paths, store, run, state, handlers,
                   dfsvars, candidate, delay_left, recorded>>

\* "result.returncode == 0 and self.config.stdout_success in result.stdout"
IsSuccess(r) == r.rc = 0 /\ Contains(r.stdout, stdout_success)

\* "result.returncode == 0 and self.config.stdout_normal in result.stdout"
IsNormalFailure(r) == r.rc = 0 /\ Contains(r.stdout, stdout_normal)

\* "range(int(delay_seconds), 0, -1)": the seconds the countdown sleeps
DelaySeconds == attempt_delay \div 1000

\* ADBHandler.handle_path: the response is appended to the ledger by
\* LogHandler.handle_path, which returns False when open or writerow raised,
\* and then classified
AdbLog ==
    /\ state = "Running" /\ pc = "adb_log"
    /\ \E logged \in BOOLEAN :
        /\ store' = (IF logged
                     THEN StoreAfterAppend(store, Timestamp, candidate, response.rc,
                                           ReplaceNewlines(response.stdout))
                     ELSE store)
        /\ LET ev == IF logged THEN "append" ELSE "append_failed"
           IN  IF IsSuccess(response)
               THEN Log(<<Event(ev, h, candidate), Event("match", h, candidate)>>)
               ELSE Log(<<Event(ev, h, candidate)>>)
    /\ IF IsSuccess(response)
       THEN /\ Matched(candidate)
            /\ UNCHANGED delay_left
       ELSE /\ IF IsNormalFailure(response) /\ attempt_delay > 0
               THEN /\ delay_left' = DelaySeconds
                    /\ pc' = "adb_delay"
                    /\ UNCHANGED <<h, result>>
               ELSE /\ NotMatched
                    /\ UNCHANGED delay_left
    /\ UNCHANGED <<cfgvars, procs, executed, enumvars, total_paths, run, state, handlers, dfsvars,
                   candidate, response, recorded>>

\* ADBHandler.handle_path: one "time.sleep(1)" of the countdown
AdbSleep ==
    /\ state = "Running" /\ pc = "adb_delay"
    /\ delay_left > 0
    /\ delay_left' = delay_left - 1
    /\ UNCHANGED <<cfgvars, procs, executed, enumvars, total_paths, store, run, state, pc,
                   handlers, dfsvars, candidate, h, response, result, trace,
                   recorded>>

\* ADBHandler.handle_path: the countdown is over: "return False, None"
AdbDelayDone ==
    /\ state = "Running" /\ pc = "adb_delay"
    /\ delay_left = 0
    /\ NotMatched
    /\ UNCHANGED <<cfgvars, procs, executed, enumvars, total_paths, store, run, state, handlers,
                   dfsvars, candidate, response, delay_left, trace, recorded>>

\* variant of the test below: an interrupt is also taken after the outcome
\* of the run was reported
InterruptibleLate == state \in {"Running", "Found", "Exhausted"}

\* main.py: "try: ... except KeyboardInterrupt:" covers the search and the
\* report of its outcome
Interruptible == state = "Running"

\* main.py: "except Exception": an exception that left a handler's
\* handle_path (print on a closed stdout, ...) ends the run with exit code 1
HandlerRaises ==
    /\ state = "Running" /\ pc = "process"
    /\ h <= Len(handlers)
    /\ Log(<<Event("call", h, candidate), Event("raise", h, candidate)>>)
    /\ state' = "Fatal"
    /\ pc' = "exit"
    /\ UNCHANGED <<cfgvars, procs, executed, enumvars, total_paths, store, run, handlers, dfsvars,
                   candidate, h, response, delay_left, result, recorded>>

(***************************************************************************)
(* main(): interruption and the next run.                                  *)
(***************************************************************************)
\* KeyboardInterrupt during the search: every active dfs_helper call runs its
\* "finally", main reports the interruption and exits
Interrupt ==
    /\ Interruptible
    /\ state' = "Interrupted"
    /\ pc' = "exit"
    /\ path' = SubSeq(path, 1, Len(path) - Len(stack))
    /\ visited' = visited \ {stack[i].node : i \in 1..Len(stack)}
    /\ stack' = <<>>
    /\ UNCHANGED <<cfgvars, procs, executed, enumvars, total_paths, store, run, handlers, root_i,
                   candidate, h, response, delay_left, result, trace, recorded>>

Appended == {trace[i].path : i \in {j \in 1..Len(trace) : trace[j].ev = "append"}}

\* the paths this run has run the device command for
Commanded == {trace[i].path : i \in {j \in 1..Len(trace) : trace[j].ev = "cmd"}}

\* the memory of the process that starts next
FreshStart ==
    /\ total_paths' = None
    /\ state' = "Idle"
    /\ pc' = "start"
    /\ handlers' = <<>>
    /\ path' = <<>>
    /\ visited' = {}
    /\ stack' = <<>>
    /\ root_i' = 1
    /\ candidate' = <<>>
    /\ h' = 1
    /\ response' = NoResponse
    /\ delay_left' = 0
    /\ result' = NoResult
    /\ trace' = <<>>

\* main() is started again with the same configuration and ledger store
Restart ==
    /\ mode = "main" /\ pc = "exit"
    /\ run < MaxRuns
    /\ run' = run + 1
    /\ recorded' = recorded \cup Appended
    /\ executed' = executed \cup Commanded
    /\ FreshStart
    /\ UNCHANGED <<cfgvars, procs, enumvars, store>>

(***************************************************************************)
(* Processes that use one ledger store at the same time.  Each process     *)
(* makes one call, get_attempted_paths ("load") or LogHandler.handle_path  *)
(* ("append"), one system call or buffer operation per step.               *)
(***************************************************************************)
ProcIds == {1, 2}

\* the path process i appends a record for: ['1'] or ['2']
ProcPath(i) == <<PyStrInt(i)[1]>>

\* the record process i appends: [timestamp, path, returncode, info]
ProcRecord(i) == <<Timestamp, PyStr(ProcPath(i)), PyStrInt(0), <<>>>>

\* a call that has not started: fmode is the mode the file is opened in,
\* lock the lock held on it, buf the text written to the file object and not
\* yet to the file, seen the set a load has collected
NewProc(op) ==
    [op |-> op, pc |-> "start", fmode |-> "", lock |-> "", buf |-> <<>>,
     seen |-> {}]

ProcStores == {NoStore, [exists |-> TRUE, text |-> HeaderLine]}

InitProcs ==
    /\ mode = "procs"
    /\ cfg = Scenario
    /\ given = NumberFields
    /\ raised = ""
    /\ iterated = FALSE
    /\ yielded = <<>>
    /\ modes = <<>>
    /\ test_path = <<>>
    /\ attempt_delay = 0
    /\ store \in ProcStores
    /\ run = 1
    /\ recorded = {}
    /\ executed = {}
    /\ procs \in {<<NewProc(a), NewProc(b)>> : a, b \in {"load", "append"}}
    /\ Fresh

\* the file after open(path, m): 'w' creates it or empties it, 'a' creates it
\* when it is not there
FileAfterOpen(st, m) ==
    IF m = "w" THEN [exists |-> TRUE, text |-> <<>>]
    ELSE IF m = "a" THEN [exists |-> TRUE, text |-> st.text]
    ELSE st

\* the file after the buffer of a file object is written out: at the end of
\* the file in mode 'a', at the position of the file object, which is 0,
\* in mode 'w'
FileAfterFlush(st, m, buf) ==
    IF buf = <<>> THEN st
    ELSE IF m = "a" THEN [exists |-> TRUE, text |-> st.text \o buf]
    ELSE [exists |-> TRUE,
          text |-> buf \o SubSeq(st.text, Len(buf) + 1, Len(st.text))]

\* get_attempted_paths: "if not os.path.isfile(paths_log_file_path)"
ProcCheck ==
    /\ mode = "procs"
    /\ \E i \in ProcIds :
        /\ procs[i].op = "load" /\ procs[i].pc = "start"
        /\ procs' = [procs EXCEPT ![i].pc = IF store.exists THEN "read" ELSE "create"]
    /\ UNCHANGED <<cfgvars, enumvars, total_paths, store, run, state, pc, handlers,
                   dfsvars, candidate, h, response, delay_left, result, trace,
                   recorded, executed>>

\* open(paths_log_file_path, ...): 'w' after the check found no file, 'r'
\* after it found one, 'a' for an append
ProcOpen ==
    /\ mode = "procs"
    /\ \E i \in ProcIds :
        LET m == IF procs[i].op = "append" THEN "a"
                 ELSE IF procs[i].pc = "create" THEN "w" ELSE "r"
        IN  /\ \/ procs[i].op = "append" /\ procs[i].pc = "start"
               \/ procs[i].op = "load" /\ procs[i].pc \in {"create", "read"}
            /\ store' = FileAfterOpen(store, m)
            /\ procs' = [procs EXCEPT ![i].pc = "opened", ![i].fmode = m]
    /\ UNCHANGED <<cfgvars, enumvars, total_paths, run, state, pc, handlers,
                   dfsvars, candidate, h, response, delay_left, result, trace,
                   recorded, executed>>

\* fcntl.flock(f.fileno(), LOCK_SH) of a load that reads, LOCK_EX otherwise:
\* the call returns when no other open file holds a lock that excludes it
ProcLock ==
    /\ mode = "procs"
    /\ \E i \in ProcIds :
        LET want == IF procs[i].fmode = "r" THEN "SH" ELSE "EX"
        IN  /\ procs[i].pc = "opened"
            /\ \A j \in ProcIds \ {i} :
                   procs[j].lock = "" \/ (want = "SH" /\ procs[j].lock = "SH")
            /\ procs' = [procs EXCEPT ![i].pc = "locked", ![i].lock = want]
    /\ UNCHANGED <<cfgvars, enumvars, total_paths, store, run, state, pc, handlers,
                   dfsvars, candidate, h, response, delay_left, result, trace,
                   recorded, executed>>

\* csv.writer(f).writerow(...): the row goes to the buffer of the file object
ProcWrite ==
    /\ mode = "procs"
    /\ \E i \in ProcIds :
        /\ procs[i].pc = "locked" /\ procs[i].fmode \in {"w", "a"}
        /\ procs' = [procs EXCEPT
                        ![i].pc = "used",
                        ![i].buf = IF procs[i].fmode = "w" THEN CsvRow(HeaderRow)
                                   ELSE CsvRow(ProcRecord(i))]
    /\ UNCHANGED <<cfgvars, enumvars, total_paths, store, run, state, pc, handlers,
                   dfsvars, candidate, h, response, delay_left, result, trace,
                   recorded, executed>>

\* get_attempted_paths: the rows of the file are read and their keys collected
ProcRead ==
    /\ mode = "procs"
    /\ \E i \in ProcIds :
        /\ procs[i].pc = "locked" /\ procs[i].fmode = "r"
        /\ procs' = [procs EXCEPT ![i].pc = "used",
                                  ![i].seen = AttemptedOf(CsvRows(store.text))]
    /\ UNCHANGED <<cfgvars, enumvars, total_paths, store, run, state, pc, handlers,
                   dfsvars, candidate, h, response, delay_left, result, trace,
                   recorded, executed>>

\* "finally: fcntl.flock(f.fileno(), fcntl.LOCK_UN)", inside the with block
ProcUnlock ==
    /\ mode = "procs"
    /\ \E i \in ProcIds :
        /\ procs[i].pc = "used"
        /\ procs' = [procs EXCEPT ![i].pc = "unlocked", ![i].lock = ""]
    /\ UNCHANGED <<cfgvars, enumvars, total_paths, store, run, state, pc, handlers,
                   dfsvars, candidate, h, response, delay_left, result, trace,
                   recorded, executed>>

\* the end of the with block closes the file object: its buffer is written
\* to the file; the call returns, and after an append ADBHandler.handle_path
\* goes on to the inter-attempt delay
ProcClose ==
    /\ mode = "procs"
    /\ \E i \in ProcIds :
        /\ procs[i].pc = "unlocked"
        /\ store' = FileAfterFlush(store, procs[i].fmode, procs[i].buf)
        /\ procs' = [procs EXCEPT ![i].pc = "done", ![i].buf = <<>>]
        /\ IF procs[i].op = "append"
           THEN Log(<<Event("flush", i, ProcPath(i))>>)
           ELSE UNCHANGED trace
    /\ UNCHANGED <<cfgvars, enumvars, total_paths, run, state, pc, handlers,
                   dfsvars, candidate, h, response, delay_left, result, recorded,
                   executed>>

Init == InitConfig \/ InitEnum \/ InitMain \/ InitLedger \/ InitProcs

Next ==
    \/ ConfigConstruct
    \/ Construct \/ TotalPaths \/ Iterate \/ IterateAbandoned
    \/ LedgerAppend \/ LedgerLoad
    \/ MainInit \/ MainAddHandler \/ MainStartSearch
    \/ DfsCallRoot \/ DfsExhausted \/ DfsCheck \/ DfsDescend \/ DfsReturn
    \/ DfsUnwind \/ DfsFound \/ MainReport
    \/ ProcessNoMatch \/ HandlePrint \/ HandleTest \/ HandleMutating
    \/ AdbBegin \/ AdbCommand \/ AdbLog \/ AdbSleep \/ AdbDelayDone
    \/ Interrupt \/ HandlerRaises \/ Restart
    \/ ProcCheck \/ ProcOpen \/ ProcLock \/ ProcWrite \/ ProcRead \/ ProcUnlock
    \/ ProcClose

Spec == Init /\ [][Next]_vars

(***************************************************************************)
(* The traversals on their own: one run of main() that is not interrupted  *)
(* and whose handlers return, and the PathFinder used as a library object. *)
(* The process keeps running while it has a step to take.                  *)
(***************************************************************************)
\* more nodes allowed in a path than the grid has: three nodes can be visited
DeepScenario ==
    [grid_size |-> 3, path_min_len |-> 1, path_max_len |-> 10,
     path_prefix |-> <<>>, path_suffix |-> <<>>,
     excluded_nodes |-> {"2", "3", "4", "5", "6", "7"}]

InitTraversal ==
    /\ \/ /\ mode = "enum"
          /\ cfg \in MainConfigs \cup WideScenarios \cup {DeepScenario}
          /\ modes = <<>>
          /\ test_path = <<>>
          /\ attempt_delay = 0
       \/ /\ mode = "main"
          /\ \/ cfg \in MainConfigs /\ modes \in Chains
             \/ cfg \in WideScenarios \cup {DeepScenario} /\ modes = <<"p">>
          /\ test_path \in (IF "t" \in Range(modes) THEN TestPaths ELSE {<<>>})
          /\ attempt_delay \in (IF modes = <<"a">> THEN AttemptDelays ELSE {0})
    /\ given = NumberFields
    /\ raised = ""
    /\ iterated = FALSE
    /\ yielded = <<>>
    /\ store = NoStore
    /\ run = 1
    /\ recorded = {}
    /\ executed = {}
    /\ procs = <<>>
    /\ Fresh

NextTraversal ==
    \/ Construct \/ TotalPaths \/ Iterate
    \/ MainInit \/ MainAddHandler \/ MainStartSearch
    \/ DfsCallRoot \/ DfsExhausted \/ DfsCheck \/ DfsDescend \/ DfsReturn
    \/ DfsUnwind \/ DfsFound \/ MainReport
    \/ ProcessNoMatch \/ HandlePrint \/ HandleTest \/ HandleMutating
    \/ AdbBegin \/ AdbCommand \/ AdbLog \/ AdbSleep \/ AdbDelayDone

TraversalSpec == InitTraversal /\ [][NextTraversal]_vars /\ WF_vars(NextTraversal)
(***************************************************************************)
(* Claims about the enumerator and the counter.                            *)
(***************************************************************************)
CounterDone == total_paths # None \/ raised # ""

\* C1: for every valid constraint set, the integer the path counter returns
\* equals the number of paths one full iteration of the enumerator yields.
C1_CounterEqualsEnumerator ==
    (mode = "enum" /\ ValidConfig(cfg) /\ iterated /\ total_paths # None)
        => total_paths = Len(yielded)

\* C2: on the 3x3 grid with min_length = max_length = 4, prefix [1],
\* suffix [9] and excluded {5}, the enumerator yields exactly [1,2,6,9] and
\* [1,4,8,9], in that order, and the counter reports 2.
C2_ScenarioTwoPaths ==
    (mode = "enum" /\ cfg = Scenario) =>
        /\ iterated => yielded = << <<"1", "2", "6", "9">>, <<"1", "4", "8", "9">> >>
        /\ CounterDone => (total_paths = 2 /\ raised = "")

C2_Witness ==
    mode = "enum" /\ cfg = Scenario /\ iterated /\ total_paths = 2

PathWellFormed(c, p) ==
    /\ NoRepeat(p)
    /\ Range(p) \cap c.excluded_nodes = {}
    /\ c.path_min_len <= Len(p)
    /\ Len(p) <= c.path_max_len

\* the positions of the events of one kind in the trace of the run
Events(kind) == {i \in 1..Len(trace) : trace[i].ev = kind}

\* C3: for every valid constraint set, every path the enumerator yields and
\* every path dfs() offers to the chain has no node twice, no excluded node,
\* and a length between min_length and max_length.
C3_PathsWellFormed ==
    ValidConfig(cfg) =>
        /\ \A i \in 1..Len(yielded) : PathWellFormed(cfg, yielded[i])
        /\ \A i \in Events("offer") : PathWellFormed(cfg, trace[i].path)

C3_Witness ==
    /\ mode = "enum" /\ ValidConfig(cfg) /\ iterated
    /\ cfg.excluded_nodes # {} /\ cfg.path_min_len < cfg.path_max_len
    /\ \E i, j \in 1..Len(yielded) : Len(yielded[i]) < Len(yielded[j])

StartsWith(p, pre) == Len(p) >= Len(pre) /\ SubSeq(p, 1, Len(pre)) = pre

EndsWith(p, suf) == Len(p) >= Len(suf) /\ LastK(p, Len(suf)) = suf

\* C4: every yielded path begins with the whole prefix and ends with the
\* whole suffix as its trailing nodes, for prefixes and suffixes of any
\* length.
C4_PrefixAndSuffix ==
    iterated =>
        \A i \in 1..Len(yielded) :
            /\ StartsWith(yielded[i], cfg.path_prefix)
            /\ EndsWith(yielded[i], cfg.path_suffix)

C4_Witness ==
    /\ mode = "enum" /\ iterated /\ yielded # <<>>
    /\ Len(cfg.path_prefix) >= 2 /\ Len(cfg.path_suffix) >= 2

(***************************************************************************)
(* Claims about the ledger.                                                *)
(***************************************************************************)
\* C5: ledger round trip: after LogHandler.handle_path has appended a record
\* for a path, a fresh load of the same store returns a set that contains
\* the key str(path) that ADBHandler.handle_path tests for membership.
C5_LedgerRoundTrip ==
    (mode = "ledger" /\ pc = "loaded") =>
        \A p \in recorded : AlreadyAttempted(handlers[1], p)

C5_Witness ==
    /\ mode = "ledger" /\ pc = "loaded"
    /\ Cardinality(recorded) = 2
    /\ \E p \in recorded : Len(p) = 2
    /\ \E i \in 1..Len(store.text) : store.text[i] = "\""

\* C6: across runs that share one ledger store, the device command is never
\* executed for a path recorded in the store when the run started; in the
\* scenario with [1,2,6,9] recorded, the first path tried against the device
\* after the restart is [1,4,8,9].
C6_RecordedNeverRetried ==
    mode = "main" =>
        /\ \A i \in Events("cmd") : trace[i].path \notin recorded
        /\ (cfg = Scenario /\ recorded = {<<"1", "2", "6", "9">>}
                /\ Events("cmd") # {})
            => trace[Min(Events("cmd"))].path = <<"1", "4", "8", "9">>

C6_Witness ==
    /\ mode = "main" /\ run = 2 /\ cfg = Scenario
    /\ recorded = {<<"1", "2", "6", "9">>}
    /\ \E i \in Events("skip") : trace[i].path = <<"1", "2", "6", "9">>
    /\ \E i \in Events("cmd") : trace[i].path = <<"1", "4", "8", "9">>

C8_RecordedBeforeNextCandidate ==
    mode = "main" =>
        \A i \in Events("cmd") :
            /\ i > 1 /\ trace[i - 1] = Event("contains", trace[i].h, trace[i].path)
            /\ \A j \in Events("offer") :
                j > i => \E k \in (i + 1)..(j - 1) :
                            trace[k] = Event("append", trace[i].h, trace[i].path)

\* the offer a position of the trace belongs to
OfferOf(i) == CHOOSE o \in Events("offer") :
                 o < i /\ \A k \in Events("offer") : k < i => k <= o

CallsIn(a, b) == {k \in Events("call") : a < k /\ k < b}

\* the last of the events S before event i
LastBefore(S, i) == CHOOSE o \in S : o < i /\ \A k \in S : k < i => k <= o

\* the events of S between a and b
Between(S, a, b) == {k \in S : a < k /\ k < b}

\* call i is for the path of offer o and is made to the handler next in line
CallInOrder(calls, i, o) ==
    /\ trace[i].path = trace[o].path
    /\ trace[i].h = Cardinality(Between(calls, o, i)) + 1
    /\ trace[i].h <= Len(handlers)

\* match i comes from the last of the calls made for offer o
MatchInOrder(calls, i, o) ==
    /\ \A k \in calls : k > i => trace[k].path # trace[i].path
    /\ Between(calls, o, i) # {}
    /\ \A k \in Between(calls, o, i) : trace[k].h <= trace[i].h
    /\ result = [success |-> TRUE, path |-> trace[i].path]

\* between offer o and the offer after it every handler was called and none
\* matched
AllCalled(calls, o, next) ==
    /\ Cardinality(Between(calls, o, next)) = Len(handlers)
    /\ \A k \in (o + 1)..(next - 1) : trace[k].ev # "match"

RegistrationOrder(offers, calls, matches) ==
    /\ \A i \in calls :
        /\ \E o \in offers : o < i
        /\ CallInOrder(calls, i, LastBefore(offers, i))
    /\ \A i \in matches : MatchInOrder(calls, i, LastBefore(offers, i))
    /\ \A o \in offers :
        (\E o2 \in offers : o2 > o) =>
            AllCalled(calls, o, Min({o2 \in offers : o2 > o}))
    /\ matches = {} => ~result.success

\* C9: process_path offers a candidate to the handlers in registration order
\* and stops at the first one that matches, returning its result path; the
\* handlers registered after it are not called for that candidate, and
\* without a match the result is not matched.  When two handlers would both
\* match, the one registered first reports.
C9_RegistrationOrder ==
    mode = "main" => RegistrationOrder(Events("offer"), Events("call"), Events("match"))

C9_Witness ==
    /\ mode = "main" /\ modes = <<"a", "t">> /\ state = "Found"
    /\ TestMatches(result.path)
    /\ trace[Len(trace)] = Event("match", 1, result.path)
    /\ Cardinality(Events("offer")) >= 2

\* C10: dfs() stops at the first candidate for which the chain reports a
\* match: it returns (True, result path of the matching handler), and after
\* the match no further candidate is generated or offered to any handler.
C10_StopsAtFirstMatch ==
    mode = "main" =>
        /\ \A i \in Events("match") : i = Len(trace)
        /\ (pc = "unwind" \/ (pc = "report" /\ result.success) \/ state = "Found") =>
            /\ Len(trace) > 0 /\ trace[Len(trace)].ev = "match"
            /\ result = [success |-> TRUE, path |-> trace[Len(trace)].path]
            /\ StartsWith(result.path, path)
        /\ Events("match") # {} =>
            (pc \in {"unwind", "report"} \/ state = "Found" \/ state = "Interrupted")

C10_Witness ==
    /\ mode = "main" /\ state = "Found" /\ cfg = Scenario
    /\ result = [success |-> TRUE, path |-> <<"1", "2", "6", "9">>]
    /\ Cardinality(Events("offer")) = 1

\* the paths offered to the chain so far, in the order of their offers
Offered ==
    LET o == SelectSeq(trace, LAMBDA e : e.ev = "offer")
    IN [k \in 1..Len(o) |-> o[k].path]

\* C11: a search in which no handler reports a match ends in the exhausted
\* state with the result (False, []) after every path the enumerator yields
\* for the configuration has been offered to the chain exactly once, in the
\* enumerator's order, and nothing else has been offered.
C11_ExhaustedAfterAllOffered ==
    (mode = "main" /\ state = "Exhausted") =>
        /\ Offered = IterPaths(cfg)
        /\ \A p \in Range(IterPaths(cfg)) :
               Cardinality({k \in 1..Len(Offered) : Offered[k] = p}) = 1
        /\ result = NoResult
        /\ Events("match") = {}

C11_Witness ==
    /\ mode = "main" /\ state = "Exhausted" /\ cfg = Scenario
    /\ Offered = <<<<"1", "2", "6", "9">>, <<"1", "4", "8", "9">>>>
    /\ result = NoResult

\* C12: a configuration under which no path is valid is reported as the error
\* "No paths found": an iteration of the engine that yields nothing has
\* raised that error, and main() starts a search only for a configuration
\* whose enumerator yields at least one path.
C12_EmptySearchSpaceReported ==
    /\ (mode = "enum" /\ iterated /\ yielded = <<>>) => raised # ""
    /\ (mode = "main" /\ state \in {"Running", "Found", "Exhausted", "Interrupted"})
           => IterPaths(cfg) # <<>>

\* C13: a grid size outside 3..6 is rejected when the engine is constructed:
\* the constructor raises ValueError("Unsupported grid size"), no path count
\* and no path is produced, and main() ends in the fatal state before any
\* handler is built or any candidate is offered.
C13_UnsupportedGridRejected ==
    cfg.grid_size \notin {3, 4, 5, 6} =>
        /\ mode = "enum" =>
            /\ pc \in {"start", "failed"}
            /\ pc = "failed" => raised = "ValueError: Unsupported grid size"
            /\ total_paths = None /\ ~iterated /\ yielded = <<>>
        /\ mode = "main" =>
            /\ state \in {"Idle", "Fatal"}
            /\ handlers = <<>> /\ trace = <<>> /\ total_paths = None

C13_Witness ==
    /\ mode = "enum" /\ cfg.grid_size = 7 /\ pc = "failed"
    /\ raised = "ValueError: Unsupported grid size"

\* C14: each supported grid size n has its own table: n * n distinct nodes,
\* and a neighbour map with exactly one entry per node whose neighbours are
\* nodes of the grid other than the node itself; a freshly constructed engine
\* holds the table of its configured size and of no other size.
C14_GridTables ==
    (mode = "enum" /\ pc = "ready" /\ ~iterated /\ total_paths = None
         /\ raised = "" /\ trace = <<>>) =>
        LET n == cfg.grid_size
            g == Graph(cfg)
            nb == Neighbors(cfg)
        IN /\ n \in {3, 4, 5, 6}
           /\ g = graphs[n].graph /\ nb = graphs[n].neighbors
           /\ \A m \in {3, 4, 5, 6} \ {n} : graphs[m].graph # g
           /\ Len(g) = n * n
           /\ NoRepeat(g)
           /\ DOMAIN nb = Range(g)
           /\ \A v \in Range(g) :
                  /\ Range(nb[v]) \subseteq Range(g)
                  /\ v \notin Range(nb[v])

C14_Witness ==
    /\ mode = "enum" /\ pc = "ready" /\ ~iterated /\ total_paths = None
    /\ cfg.grid_size = 6 /\ Len(Graph(cfg)) = 36

C16_TimeoutRecorded ==
    mode = "main" =>
        \A i \in Events("timeout") :
            AlreadyAttempted(NewHandler("a", store), trace[i].path)

\* C17: a failure of the external tool itself ends the search: when the
\* set-up of the terminal consumer fails the run is fatal with no candidate
\* offered, and after a device call that raised an error other than a
\* timeout no further candidate is offered.
C17_StructuralFailureAborts ==
    mode = "main" =>
        /\ (state = "Fatal" /\ Len(handlers) < Len(modes)) => Events("offer") = {}
        /\ \A i \in Events("error") :
               \A j \in (i + 1)..Len(trace) : trace[j].ev # "offer"

\* C18: when the ledger store cannot be created or a record cannot be
\* appended, the run is fatal: no device command is sent and no candidate is
\* offered after the failure, and the run does not end in another state.
C18_LedgerFailureIsFatal ==
    mode = "main" =>
        \A i \in Events("create_failed") \cup Events("append_failed") :
            /\ \A j \in (i + 1)..Len(trace) : trace[j].ev \notin {"offer", "cmd"}
            /\ state \notin {"Found", "Exhausted"}

(***************************************************************************)
(* Claims about interruption and the states of a run.                      *)
(***************************************************************************)
\* the run was interrupted while the terminal consumer was waiting for the
\* device command of the candidate, or held its response unrecorded
InterruptedInCall ==
    /\ mode = "main" /\ state = "Interrupted" /\ trace # <<>>
    /\ trace[Len(trace)] \in {Event("contains", h, candidate),
                              Event("cmd", h, candidate)}

\* the run was interrupted during the countdown that follows a response with
\* the normal-failure text
InterruptedInDelay ==
    /\ mode = "main" /\ state = "Interrupted" /\ trace # <<>>
    /\ trace[Len(trace)] \in {Event("append", h, candidate),
                              Event("append_failed", h, candidate)}
    /\ IsNormalFailure(response) /\ attempt_delay > 0

\* the terminal consumer of the next run would skip the candidate
NextRunSkips == AlreadyAttempted(NewHandler("a", store), candidate)

Terminal == {"Found", "Exhausted", "Interrupted", "Fatal"}

\* C20: within one run of main() the state goes from Idle to Running or,
\* when the set-up fails, to Fatal, and from Running to exactly one of Found,
\* Exhausted, Interrupted and Fatal; a candidate is generated, offered or
\* handed to a handler only in a step taken while Running, and in a terminal
\* state neither the state nor the history of the run changes again.
C20_RunStates ==
    [][ (mode = "main" /\ run' = run) =>
          /\ state' # state =>
                \/ state = "Idle" /\ state' \in {"Running", "Fatal"}
                \/ state = "Running" /\ state' \in Terminal
          /\ state # "Running" =>
                /\ candidate' = candidate
                /\ \A i \in (Len(trace) + 1)..Len(trace') :
                       trace'[i].ev \in {"create_failed"}
          /\ state \in Terminal =>
                UNCHANGED <<state, trace, candidate, path, store, result>>
      ]_vars

C20_Witness ==
    /\ mode = "main" /\ run = 2 /\ state = "Fatal"
    /\ Events("offer") # {} /\ Events("raise") # {}
    /\ recorded # {}

C22_AcceptedConfigValid ==
    mode = "config" =>
        /\ pc = "accepted" =>
            /\ Len(cfg.path_prefix) <= cfg.path_max_len
            /\ Len(cfg.path_suffix) <= cfg.path_max_len
            /\ Len(cfg.path_prefix) + Len(cfg.path_suffix) <= cfg.path_max_len
            /\ Range(cfg.path_prefix) \cap cfg.excluded_nodes = {}
            /\ Range(cfg.path_suffix) \cap cfg.excluded_nodes = {}
            /\ cfg.path_min_len <= cfg.path_max_len
        /\ pc = "rejected" => raised = "ValidationError"

Untouched == total_paths = None /\ raised = "" /\ trace = <<>>

\* a sequence the constraint set c asks for: distinct nodes of the grid, none
\* excluded, the prefix first and the suffix last, a length within the
\* bounds, and every node after the prefix a neighbour of the node before it
IsRequiredPath(c, w) ==
    LET g == graphs[c.grid_size]
    IN  /\ NoRepeat(w)
        /\ Range(w) \subseteq Range(g.graph) \ c.excluded_nodes
        /\ StartsWith(w, c.path_prefix)
        /\ EndsWith(w, c.path_suffix)
        /\ c.path_min_len <= Len(w) /\ Len(w) <= c.path_max_len
        /\ \A i \in 2..Len(w) :
               i > Len(c.path_prefix) => w[i] \in Range(g.neighbors[w[i - 1]])

RECURSIVE WalksFrom(_, _, _)

\* the sequences of length k and more, up to path_max_len, that extend a
\* sequence of the set S by neighbours not yet in it: every required path is
\* among them
WalksFrom(c, S, k) ==
    IF k > c.path_max_len \/ S = {} THEN {}
    ELSE S \cup WalksFrom(c,
                          UNION {{Append(w, n) :
                                     n \in Range(graphs[c.grid_size].neighbors[w[Len(w)]])
                                              \ Range(w)} : w \in S},
                          k + 1)

Walks(c) ==
    IF c.path_prefix # <<>>
    THEN WalksFrom(c, {c.path_prefix}, Len(c.path_prefix))
    ELSE WalksFrom(c, {<<n>> : n \in Range(graphs[c.grid_size].graph)}, 1)

\* C24: for every valid constraint set, one full traversal of the enumerator
\* yields every sequence the constraint set asks for, and yields it exactly
\* once: no path is yielded twice.
C24_CompleteWithoutDuplicates ==
    (mode = "enum" /\ ValidConfig(cfg) /\ iterated /\ Untouched) =>
        /\ {w \in Walks(cfg) : IsRequiredPath(cfg, w)} \subseteq Range(yielded)
        /\ Cardinality(Range(yielded)) = Len(yielded)

C24_Witness ==
    /\ mode = "enum" /\ ValidConfig(cfg) /\ iterated
    /\ cfg.path_prefix = <<>> /\ cfg.path_suffix = <<"6">>
    /\ cfg.excluded_nodes = {"5"} /\ cfg.path_min_len = 2 /\ cfg.path_max_len = 3
    /\ Cardinality({w \in Walks(cfg) : IsRequiredPath(cfg, w)}) = Len(yielded)
    /\ Len(yielded) > 3

\* C25: when the prefix is longer than max_length, or holds the same node
\* twice, the enumerator yields no path and dfs() offers no candidate.
C25_NoPathFromBadPrefix ==
    (Len(cfg.path_prefix) > cfg.path_max_len \/ ~NoRepeat(cfg.path_prefix)) =>
        /\ mode = "enum" => yielded = <<>>
        /\ mode = "main" => Events("offer") = {}

\* the position of x in the sequence l of distinct entries
PositionIn(l, x) == CHOOSE i \in 1..Len(l) : l[i] = x

\* p comes before q in depth-first pre-order: p is a proper beginning of q,
\* or at the first position where they differ the node of p comes first in
\* the node list of the grid (first position) or in the neighbour list of
\* the node before it
PreOrderBefore(c, p, q) ==
    LET g == graphs[c.grid_size]
        differ == {k \in 1..Len(p) : k > Len(q) \/ p[k] # q[k]}
    IN  IF differ = {} THEN Len(p) < Len(q)
        ELSE LET k == CHOOSE d \in differ : \A e \in differ : d <= e
             IN  /\ k <= Len(q)
                 /\ IF k = 1
                    THEN PositionIn(g.graph, p[1]) < PositionIn(g.graph, q[1])
                    ELSE PositionIn(g.neighbors[p[k - 1]], p[k])
                             < PositionIn(g.neighbors[p[k - 1]], q[k])

\* C26: the enumeration is in depth-first pre-order: every yielded path comes
\* before the next one in that order, so a path comes before its extensions,
\* roots are taken in the order of the grid's node list and extensions in
\* the order of the neighbour list of the last node; with a prefix every
\* path begins with it, the last prefix node being the only root; dfs()
\* offers its candidates in the same order.
C26_DepthFirstPreOrder ==
    /\ mode = "enum" =>
        /\ \A i \in 1..(Len(yielded) - 1) :
               PreOrderBefore(cfg, yielded[i], yielded[i + 1])
        /\ \A i \in 1..Len(yielded) :
               /\ StartsWith(yielded[i], cfg.path_prefix)
               /\ cfg.path_prefix = <<>> => yielded[i][1] \notin cfg.excluded_nodes
    /\ (mode = "main" /\ trace # <<>> /\ trace[Len(trace)].ev = "offer") =>
        \A i \in 1..(Len(Offered) - 1) :
            PreOrderBefore(cfg, Offered[i], Offered[i + 1])

C26_Witness ==
    /\ mode = "enum" /\ iterated
    /\ cfg.path_prefix = <<>> /\ cfg.excluded_nodes = {"1"}
    /\ cfg.path_min_len = 1 /\ cfg.path_max_len = 2 /\ cfg.path_suffix = <<>>
    /\ SubSeq(yielded, 1, 3) = << <<"2">>, <<"2", "3">>, <<"2", "4">> >>

(***************************************************************************)
(* Claims about backtracking and the paths handed out.                     *)
(***************************************************************************)
\* C27: backtracking restores the traversal state exactly: at every point of
\* a traversal by dfs() the visited set is the set of the nodes of the
\* current path, which is the seeded prefix nodes followed by the nodes of
\* the calls that have not returned, so that a return (normal, early on a
\* match, or forced by an interrupt) leaves path and visited as they were
\* before the node was pushed; after a traversal of dfs() or of the
\* enumerator, complete or closed, the path holds the seeded prefix nodes
\* only and visited is the set of these.
C27_BacktrackingRestores ==
    /\ (mode = "main" /\ state \in {"Running", "Found", "Exhausted", "Interrupted"}) =>
        /\ visited = Range(path)
        /\ path = ButLast(cfg.path_prefix) \o [i \in 1..Len(stack) |-> stack[i].node]
        /\ (pc \in {"report", "exit"}) => stack = <<>>
    /\ (mode = "enum" /\ (iterated \/ trace # <<>>)) =>
        /\ path = ButLast(cfg.path_prefix)
        /\ visited = Range(path)

C29_LoadCreatesOrKeeps ==
    [][(mode = "ledger" /\ pc' \in {"loaded", "reloaded"} /\ pc' # pc) =>
          LET new == handlers'[Len(handlers')]
          IN  /\ ~store.exists =>
                     /\ store'.exists
                     /\ CsvRows(store'.text) = <<HeaderRow>>
                     /\ new.attempted_paths = {}
              /\ store.exists => store' = store
              /\ pc = "loaded" =>
                     /\ store' = store
                     /\ new.attempted_paths = handlers[1].attempted_paths]_vars

C29_Witness ==
    /\ mode = "ledger" /\ pc = "reloaded" /\ Len(handlers) = 2
    /\ store.text = HeaderLine \o OneFieldLine \o DataLine
    /\ handlers[2].attempted_paths = handlers[1].attempted_paths
    /\ handlers[2].attempted_paths = {<<"b">>}

\* the rows of the store that have fewer than two fields
MalformedRows(st) ==
    LET rows == CsvRows(st.text)
    IN SelectSeq(rows, LAMBDA row : Len(row) < 2)

\* the path keys of the data records of the store: the second field of every
\* row of two or more fields but a header in the first row
DataKeys(st) ==
    LET rows == CsvRows(st.text)
    IN {rows[i][2] : i \in {j \in 1..Len(rows) :
                                /\ Len(rows[j]) >= 2
                                /\ ~(j = 1 /\ rows[j][1] = TimestampField)}}

\* C30: a load of a store with malformed records (fewer than two fields) at
\* any position, the first row included, returns the path keys of the
\* well-formed data records of the store and nothing else, and warns about
\* every malformed record.
C30_MalformedSkippedWithWarning ==
    (mode = "ledger" /\ pc \in {"loaded", "reloaded"}) =>
        LET new == handlers[Len(handlers)]
        IN  /\ new.attempted_paths = DataKeys(store)
            /\ new.warned = MalformedRows(store)

\* C31: when an existing store has no header record, the first record is a
\* data row and its path key is in the loaded set; when the store has a
\* header record, the loaded set is the keys of the records after it.
C31_HeaderOptional ==
    (mode = "ledger" /\ pc = "loaded" /\ store.text # <<>>) =>
        LET rows == CsvRows(store.text)
            loaded == handlers[1].attempted_paths
        IN  /\ (rows[1] # <<>> /\ rows[1][1] # TimestampField /\ Len(rows[1]) >= 2)
                   => rows[1][2] \in loaded
            /\ (rows[1] # <<>> /\ rows[1][1] = TimestampField)
                   => loaded = RowKeys(rows, 2)

C31_Witness ==
    /\ mode = "ledger" /\ pc = "loaded" /\ Len(trace) = 2
    /\ store.text = CsvRow(<<Timestamp, PyStr(trace[1].path), PyStrInt(0), <<>>>>)
                    \o CsvRow(<<Timestamp, PyStr(trace[2].path), PyStrInt(0), <<>>>>)
    /\ trace[1].path # trace[2].path
    /\ handlers[1].attempted_paths = {PyStr(trace[1].path), PyStr(trace[2].path)}

(***************************************************************************)
(* Claims about processes that share the ledger store.                     *)
(***************************************************************************)
\* C32: every change of the text of the store is made by a process that
\* holds the exclusive lock, every read of a load is made by a process that
\* holds a shared lock, and a process whose append has returned, where the
\* inter-attempt delay starts, holds no lock.
C32_LockDiscipline ==
    [][mode = "procs" =>
          \A i \in ProcIds :
              procs'[i] # procs[i] =>
                  /\ store'.text # store.text => procs[i].lock = "EX"
                  /\ procs'[i].seen # procs[i].seen => procs[i].lock = "SH"
                  /\ procs'[i].pc = "done" => procs'[i].lock = ""]_vars

\* C33: a record that an append has written to the store stays in the store,
\* as it was written, whatever the processes do afterwards.
C33_AppendOnly ==
    mode = "procs" =>
        \A e \in Events("flush") :
            \E k \in 1..Len(CsvRows(store.text)) :
                CsvRows(store.text)[k] = ProcRecord(trace[e].h)

(***************************************************************************)
(* Claims about the runs of main() that share a ledger store.              *)
(***************************************************************************)
\* the store was appended to in the last step
JustAppended ==
    /\ trace # <<>>
    /\ \/ trace[Len(trace)].ev = "append"
       \/ Len(trace) > 1 /\ trace[Len(trace)].ev = "match"
                         /\ trace[Len(trace) - 1].ev = "append"

\* the record that was last appended
LastAppend == IF trace[Len(trace)].ev = "append" THEN Len(trace) ELSE Len(trace) - 1

\* the run has reported its outcome
Reported == pc = "exit" /\ state \in {"Found", "Exhausted"}

\* no two records of the store have the same path key
KeysOnceIn(rows) ==
    \A i, j \in {k \in 1..Len(rows) :
                     /\ Len(rows[k]) >= 2
                     /\ ~(k = 1 /\ rows[k][1] = TimestampField)} :
        i < j => rows[i][2] # rows[j][2]

KeysOnce == KeysOnceIn(CsvRows(store.text))

\* the device command was run in the last step
JustCommanded ==
    /\ trace # <<>>
    /\ \/ trace[Len(trace)].ev = "cmd"
       \/ Len(trace) > 1 /\ trace[Len(trace)].ev \in {"timeout", "error"}
                         /\ trace[Len(trace) - 1].ev = "cmd"

\* the path the device command was last run for, and the events before it
LastCommand == IF trace[Len(trace)].ev = "cmd" THEN Len(trace) ELSE Len(trace) - 1

\* the number of times this run has run the device command for p
CommandsFor(p) == Cardinality({i \in Events("cmd") : trace[i].path = p})

\* C34 as stated: over the runs that share one ledger store, no path key is
\* in more than one record of the store, and the device command is run at
\* most once, all runs taken together, for a path whose response has been
\* recorded.
C34_AtMostOnce ==
    mode = "main" =>
        /\ Reported => KeysOnce
        /\ \A p \in recorded \cup Appended :
               CommandsFor(p) + (IF p \in executed THEN 1 ELSE 0) <= 1

\* C34 amended: no path key is in more than one record of the store of a
\* run that has reported its outcome, and no run appends a record for a path
\* that has one; whenever the device command is run for a path, the path
\* has no record, made by an earlier run or earlier in this run, and the run
\* has not run the command for it before.
C34_RecordedNotExecutedAgain ==
    mode = "main" =>
        /\ Reported => KeysOnce
        /\ JustAppended =>
               /\ trace[LastAppend].path \notin recorded
               /\ \A j \in 1..(LastAppend - 1) :
                      trace[j].ev = "append" => trace[j].path # trace[LastAppend].path
        /\ JustCommanded =>
               /\ trace[LastCommand].path \notin recorded
               /\ \A j \in 1..(LastCommand - 1) :
                      trace[j].ev \in {"cmd", "append"}
                          => trace[j].path # trace[LastCommand].path

C34_Witness ==
    /\ mode = "main" /\ run = 2
    /\ recorded # {}
    /\ \E i \in Events("skip") : trace[i].path \in recorded
    /\ \E i \in Events("append") :
           /\ trace[i].path \in executed \ recorded
           /\ CommandsFor(trace[i].path) = 1
    /\ Reported

(***************************************************************************)
(* Claims about dfs() and the enumerator.                                  *)
(***************************************************************************)
\* C35: when dfs() has returned, the paths it passed to process_path are, in
\* order, the paths __iter__ yields for the configuration: all of them when
\* the chain reported no match, and otherwise those up to the first path the
\* chain reported a match for, which is the last one passed.
C35_DfsIsIter ==
    (mode = "main" /\ pc = "report") =>
        LET all == IterPaths(cfg)
            n == Len(Offered)
        IN  /\ n <= Len(all)
            /\ Offered = SubSeq(all, 1, n)
            /\ IF result.success
               THEN /\ n >= 1
                    /\ Events("match") = {Len(trace)}
                    /\ trace[Len(trace)].path = all[n]
               ELSE /\ n = Len(all)
                    /\ Events("match") = {}
            /\ modes = <<"t">> =>
                   \A k \in 1..Len(all) : (k < n \/ ~result.success) => all[k] # test_path

C35_Witness ==
    /\ mode = "main" /\ pc = "report" /\ cfg = Scenario
    /\ result.success
    /\ Offered = <<<<"1", "2", "6", "9">>>>
    /\ IterPaths(cfg) = <<<<"1", "2", "6", "9">>, <<"1", "4", "8", "9">>>>

(***************************************************************************)
(* Claims about termination.                                               *)
(***************************************************************************)
\* the number of nodes of the grid
NodeCount == Len(Graph(cfg))

\* C36: every traversal ends: a PathFinder that was constructed gets through
\* a full iteration and the counting pass, and a dfs() that was started
\* returns; no call of dfs_helper is nested deeper than the grid has nodes,
\* no path of dfs() is longer than that plus the prefix, and no path the
\* iteration yields is.
C36_TraversalsTerminate ==
    /\ (mode = "enum" /\ pc = "ready") ~> (iterated /\ CounterDone)
    /\ (mode = "main" /\ state = "Running") ~> (pc = "report")
    /\ [](mode = "main" /\ state = "Running" =>
              /\ Len(stack) <= NodeCount
              /\ Len(path) <= NodeCount + Len(cfg.path_prefix))
    /\ [](mode = "enum" /\ iterated =>
              \A k \in 1..Len(yielded) :
                  Len(yielded[k]) <= NodeCount + Len(cfg.path_prefix))

C36_Witness ==
    /\ mode = "main" /\ pc = "report" /\ cfg = DeepScenario
    /\ Len(Offered) > 3
    /\ \A k \in 1..Len(Offered) : Len(Offered[k]) <= 3
    /\ ~result.success

\* C37: in the table of every supported grid size, and so in the table a
\* constructed engine holds, b is listed for a exactly when a is listed for
\* b, no node is listed for itself, every listed node is a node of the
\* grid's node list, and no node is listed twice for the same node.
C37_AdjacencySymmetric ==
    (mode = "enum" /\ pc = "ready" /\ ~iterated /\ total_paths = None
         /\ raised = "" /\ trace = <<>>) =>
        /\ Neighbors(cfg) = graphs[cfg.grid_size].neighbors
        /\ \A n \in DOMAIN graphs :
               LET g == graphs[n].graph
                   nb == graphs[n].neighbors
               IN \A a \in Range(g) :
                      /\ NoRepeat(nb[a])
                      /\ a \notin Range(nb[a])
                      /\ Range(nb[a]) \subseteq Range(g)
                      /\ \A b \in Range(g) :
                             b \in Range(nb[a]) <=> a \in Range(nb[b])

C37_Witness ==
    /\ mode = "enum" /\ pc = "ready" /\ ~iterated /\ total_paths = None
    /\ raised = "" /\ trace = <<>>
    /\ cfg.grid_size = 5
    /\ "7" \in Range(Neighbors(cfg)["1"])
    /\ "1" \in Range(Neighbors(cfg)["7"])
    /\ "I" \in Range(Neighbors(cfg)["C"])
    /\ "C" \in Range(Neighbors(cfg)["I"])
    /\ "3" \notin Range(Neighbors(cfg)["1"])
    /\ "1" \notin Range(Neighbors(cfg)["3"])

\* the last thing the run did
LastEvent == trace[Len(trace)]

\* the classification half of C38: a match of the terminal consumer and the
\* countdown of the delay follow a recorded (or unrecordable) response of
\* return code 0 with the success marker, and the normal-failure marker
\* without the success marker, respectively
C38_Classified ==
    mode = "main" =>
        /\ \A i \in Events("match") :
               handlers[trace[i].h].kind = "a" =>
                   /\ response.kind = "response" /\ IsSuccess(response)
                   /\ i > 1 /\ trace[i - 1].ev \in {"append", "append_failed"}
                   /\ trace[i - 1].path = trace[i].path
        /\ (pc = "adb_delay" \/ delay_left > 0) =>
               /\ response.kind = "response"
               /\ IsNormalFailure(response) /\ ~IsSuccess(response)
               /\ LastEvent.ev \in {"append", "append_failed"}
               /\ LastEvent.path = candidate
               /\ handlers[h].kind = "a"

\* C38: the terminal consumer records, then classifies: when handle_path has
\* returned after the device command returned a response, exactly one record
\* of the candidate was appended, before the match was reported; a match is
\* reported only for return code 0 with the success marker; the delay runs
\* only after return code 0 with the normal-failure marker.
C38_RecordThenClassify ==
    /\ C38_Classified
    /\ mode = "main" =>
           \A i \in Events("cmd") :
               i < Len(trace) =>
                   /\ trace[i + 1].ev \in {"timeout", "error", "append"}
                   /\ trace[i + 1].path = trace[i].path
                   /\ trace[i + 1].ev = "append" =>
                          (i + 1 < Len(trace) =>
                               trace[i + 2].ev \in {"match", "call", "offer"})

\* C39: whenever the driver has called the handle_path of an ADBHandler,
\* the attempt number the handler reports for the call is at least 1 and at
\* most total_paths, also in a run that loaded a non-empty ledger and skips
\* the recorded paths.
C39_AttemptNumberInRange ==
    mode = "main" =>
        \A i \in 1..Len(handlers) :
            (handlers[i].kind = "a"
                 /\ \E e \in Events("skip") \cup Events("contains") : trace[e].h = i) =>
                /\ 1 <= handlers[i].current_path_number
                /\ handlers[i].current_path_number <= total_paths

====
